---- MODULE Spec2Model ----
(***************************************************************************)
(* Request-routing and failover gateway of cc-switch (src-tauri/src/proxy). *)
(*                                                                         *)
(* Specifications of this module:                                          *)
(*   Spec          request handling: RequestContext::new, provider         *)
(*                 selection over the circuit breakers, forward_with_retry *)
(*                 and the handler's result handling.                      *)
(*   SpecTimeouts  the timeout values a request runs with                  *)
(*                 (create_forwarder, streaming_timeout_config).           *)
(*   SpecCollector SseUsageCollector: push() and finish() called by the    *)
(*                 holders of its clones.                                  *)
(*   SpecRelay     create_logged_passthrough_stream: the relay of one      *)
(*                 upstream stream to the response body.                   *)
(*   SpecCost      log_usage_internal: the multiplier, the priced model    *)
(*                 and the cost of one usage record.                       *)
(*   SpecPipeline  the handler after forward_with_retry: the error row,    *)
(*                 the buffered and the streamed response, and the         *)
(*                 persistence tasks they spawn.                           *)
(*   SpecServer    ProxyServer::start and ProxyServer::stop called by      *)
(*                 overlapping callers, and the server tasks.              *)
(*   SpecRelayFair SpecRelay under the pass-through collector, with the    *)
(*                 relay's steps weakly fair.                              *)
(*   SpecUri       with_model_from_uri on the URIs of Gemini requests.     *)
(*   SpecTargets   set_active_target and get_status on the map of active   *)
(*                 targets.                                                *)
(*                                                                         *)
(* circuit_breaker.rs, provider_router.rs, forwarder.rs and the usage      *)
(* logger are used by the sources but are not part of them; their          *)
(* definitions below follow sections 4.1, 4.2, 4.4 and 4.6 of the          *)
(* specification.                                                          *)
(***************************************************************************)
EXTENDS Integers, Sequences, FiniteSets, TLC

VARIABLES
    configured,   \* the store's enabled providers of the app type, in failover order
    breaker,      \* provider id -> circuit breaker state (shared by all requests)
    req,          \* request id -> the handler's local state (RequestContext, forwarder)
    proxyConfig,  \* the store's proxy_config row of the app type
    tctx,         \* the timeout view of one request: app_config, forwarder, stream config
    collector,    \* SseUsageCollectorInner of one response stream
    usageLog,     \* the usage records submitted by on_complete, in order
    fin,          \* holder of a collector clone -> its position in finish()
    pusher,       \* position of the task that calls push()
    clock,        \* Instant::now(), in ticks since start_time
    relay,        \* the generator of create_logged_passthrough_stream
    upstream,     \* the upstream byte stream the relay reads
    items,        \* the items the relay has yielded to the response body
    pricing,      \* the store's pricing settings: provider meta and app defaults
    costRun,      \* one log_usage_internal call: its arguments and its position
    requestLogs,  \* the rows of proxy_request_logs, in insertion order
    pipe,         \* one request after forward_with_retry: its input and what the client got
    tasks,        \* the persistence work of the request, spawned or done inline
    warnings,     \* the persistence failures that were logged
    server,       \* ProxyServer: its configuration, shutdown_tx, server_handle and status
    srvTasks,     \* the server tasks spawned by start(), in spawn order
    calls,        \* each caller's start() or stop() in progress, and its last result
    uriRun,       \* one Gemini request: its URI and the context's request_model
    currentProviders, \* ProxyState.current_providers: the entries of the HashMap
    statusView    \* the active_targets of the last get_status

gwVars == <<configured, breaker, req>>

toVars == <<proxyConfig, tctx>>

colVars == <<collector, usageLog, fin, pusher, clock>>

relVars == <<relay, upstream, items>>

costVars == <<pricing, costRun, requestLogs>>

\* the variables of the specifications that follow the first four
plVars == <<pipe, tasks, warnings>>

srvVars == <<server, srvTasks, calls>>

uriVars == <<uriRun>>

tgtVars == <<currentProviders, statusView>>

extVars == <<costVars, plVars, srvVars, uriVars, tgtVars>>

coreVars == <<gwVars, toVars, colVars, relVars>>

vars == <<coreVars, extVars>>

\* what the actions of one specification leave alone
notGw == <<toVars, colVars, relVars, extVars>>

notTo == <<gwVars, colVars, relVars, extVars>>

notCol == <<gwVars, toVars, relVars, extVars>>

notRel == <<gwVars, toVars, fin, pusher, extVars>>

notCost == <<coreVars, plVars, srvVars, uriVars, tgtVars>>

notPl == <<coreVars, costVars, srvVars, uriVars, tgtVars>>

notSrv == <<coreVars, costVars, plVars, uriVars, tgtVars>>

notUri == <<coreVars, costVars, plVars, srvVars, tgtVars>>

notTgt == <<coreVars, costVars, plVars, srvVars, uriVars>>

(***************************************************************************)
(* Bounds and configuration values                                         *)
(***************************************************************************)
MaxRequests == 2

\* holders of a clone of one collector that call finish()
MaxFinishers == 2

\* finish() calls made by one holder
MaxFinishCalls == 2

\* events pushed into one collector
MaxEvents == 2

\* ticks of the clock
MaxClock == 2

\* largest timeout value (seconds) the store row is given
MaxTimeout == 2

\* pieces of the wire text in one upstream chunk
MaxChunkLen == 2

\* the server tasks start() may spawn
MaxStarts == 2

\* the requests in flight at the server at once
MaxInflight == 1

\* segments of a request URI
MaxSegments == 3

\* circuit_failure_threshold / circuit_success_threshold / circuit_min_requests
\* are configuration; small values keep every transition within reach.
FailureThreshold == 2

SuccessThreshold == 2

MinRequests == 3

\* circuit_error_rate_threshold REAL DEFAULT 0.6, as a percentage
ErrorRatePercent == 60

\* number of concurrent trial requests a HalfOpen breaker admits
HalfOpenMaxTrials == 1

ProviderOrder == <<"A", "B", "C">>

Providers == {ProviderOrder[i] : i \in 1..Len(ProviderOrder)}

Requests == 1..MaxRequests

NoProvider == "none"

Last(s) == s[Len(s)]

(***************************************************************************)
(* 4.1 Circuit breaker                                                     *)
(***************************************************************************)
NewBreaker ==
    [state |-> "Closed", failures |-> 0, successes |-> 0,
     total |-> 0, failed |-> 0, trials |-> 0, cooled |-> FALSE]

\* error-rate rule: request count >= minimum and error rate >= ratio
ErrorRateTripped(bk) ==
    /\ bk.total >= MinRequests
    /\ bk.failed * 100 >= ErrorRatePercent * bk.total

\* transition to Open; the cool-down timer restarts
OpenBreaker(bk) ==
    [bk EXCEPT !.state = "Open", !.cooled = FALSE, !.successes = 0]

\* a trial slot is given back
release_trial(bk) ==
    [bk EXCEPT !.trials = IF bk.trials > 0 THEN bk.trials - 1 ELSE 0]

\* an allow_request that does not look at the slots already reserved
allow_request_unbounded(bk) ==
    CASE bk.state = "Closed" ->
            [bk |-> bk, decision |-> "Allowed"]
      [] bk.state = "Open" ->
            IF bk.cooled
            THEN [bk |-> [bk EXCEPT !.state = "HalfOpen", !.successes = 0,
                                    !.trials = 1, !.cooled = FALSE],
                  decision |-> "AllowedAsTrial"]
            ELSE [bk |-> bk, decision |-> "Rejected"]
      [] bk.state = "HalfOpen" ->
            [bk |-> [bk EXCEPT !.trials = IF bk.trials < HalfOpenMaxTrials
                                          THEN bk.trials + 1 ELSE bk.trials],
             decision |-> "AllowedAsTrial"]

\* allow_request() -> AttemptDecision, with the breaker after the call
allow_request(bk) ==
    CASE bk.state = "Closed" ->
            [bk |-> bk, decision |-> "Allowed"]
      [] bk.state = "Open" ->
            IF bk.cooled
            THEN [bk |-> [bk EXCEPT !.state = "HalfOpen", !.successes = 0,
                                    !.trials = 1, !.cooled = FALSE],
                  decision |-> "AllowedAsTrial"]
            ELSE [bk |-> bk, decision |-> "Rejected"]
      [] bk.state = "HalfOpen" ->
            IF bk.trials < HalfOpenMaxTrials
            THEN [bk |-> [bk EXCEPT !.trials = bk.trials + 1],
                  decision |-> "AllowedAsTrial"]
            ELSE [bk |-> bk, decision |-> "Rejected"]

\* a record_outcome that forgives a trial failure once a trial has succeeded
record_outcome_forgiving(bk, success) ==
    CASE bk.state = "Closed" ->
            IF success
            THEN [bk EXCEPT !.failures = 0, !.total = bk.total + 1]
            ELSE LET b2 == [bk EXCEPT !.failures = bk.failures + 1,
                                      !.total = bk.total + 1,
                                      !.failed = bk.failed + 1]
                 IN  IF b2.failures >= FailureThreshold \/ ErrorRateTripped(b2)
                     THEN OpenBreaker(b2)
                     ELSE b2
      [] bk.state = "HalfOpen" ->
            IF success
            THEN LET b2 == [release_trial(bk) EXCEPT !.successes = bk.successes + 1]
                 IN  IF b2.successes >= SuccessThreshold
                     THEN NewBreaker
                     ELSE b2
            ELSE IF bk.successes > 0
                 THEN release_trial(bk)
                 ELSE OpenBreaker(release_trial(bk))
      [] bk.state = "Open" -> bk

\* record_outcome(success)
record_outcome(bk, success) ==
    CASE bk.state = "Closed" ->
            IF success
            THEN [bk EXCEPT !.failures = 0, !.total = bk.total + 1]
            ELSE LET b2 == [bk EXCEPT !.failures = bk.failures + 1,
                                      !.total = bk.total + 1,
                                      !.failed = bk.failed + 1]
                 IN  IF b2.failures >= FailureThreshold \/ ErrorRateTripped(b2)
                     THEN OpenBreaker(b2)
                     ELSE b2
      [] bk.state = "HalfOpen" ->
            IF success
            THEN LET b2 == [release_trial(bk) EXCEPT !.successes = bk.successes + 1]
                 IN  IF b2.successes >= SuccessThreshold
                     THEN NewBreaker
                     ELSE b2
            ELSE OpenBreaker(release_trial(bk))
      [] bk.state = "Open" -> bk

(***************************************************************************)
(* Per-request state                                                       *)
(***************************************************************************)
NewRequest ==
    [pc           |-> "idle",     \* idle, select, ctx, forward, ok, err, done
     selCalls     |-> 0,          \* invocations of select_providers for this request
     decisions    |-> <<>>,       \* allow_request decisions so far, in store order
     kept         |-> <<>>,       \* the chain select_providers is building
     reservations |-> <<>>,       \* breakers whose trial slot this request reserved
     held         |-> {},         \* reservations not yet given back
     error        |-> "none",     \* the ProxyError returned to the client
     ctxProviders |-> <<>>,       \* RequestContext.providers
     ctxProvider  |-> NoProvider, \* RequestContext.provider
     chain        |-> <<>>,       \* the list forward_with_retry walks
     idx          |-> 0,          \* position of the next candidate in chain
     attempts     |-> <<>>,       \* upstream attempts made: [p, ok]
     resProvider  |-> NoProvider, \* ForwardResult.provider / ForwardError.provider
     logged       |-> NoProvider] \* provider of the error record of log_forward_error

InFlight(r) == req[r].pc \notin {"idle", "done"}

\* The RequestContext is discarded when the handler returns: what remains is
\* the answer given to the client and the error record that was logged.
Finished(error, provider, logged) ==
    [NewRequest EXCEPT !.pc = "done", !.error = error,
                       !.ctxProvider = provider, !.logged = logged]

(***************************************************************************)
(* 4.2 Provider router: select_providers                                   *)
(***************************************************************************)
\* the router's answer once every configured provider has been consulted
select_result(kept, nConfigured) ==
    IF kept # <<>>
    THEN [ok |-> TRUE, list |-> kept, err |-> "none"]
    ELSE IF nConfigured = 0
         THEN [ok |-> FALSE, list |-> <<>>, err |-> "NoProvidersConfigured"]
         ELSE [ok |-> FALSE, list |-> <<>>, err |-> "AllProvidersCircuitOpen"]

\* a router that keeps every provider granted a trial
keeps_every_trial(decision, hasTrial) ==
    \/ decision = "Allowed"
    \/ decision = "AllowedAsTrial"

\* whether a provider with this decision joins the chain
keeps(decision, hasTrial) ==
    \/ decision = "Allowed"
    \/ decision = "AllowedAsTrial" /\ ~hasTrial

\* one iteration of the selection loop: consult the breaker of the next provider
SelectStep(r) ==
    /\ req[r].pc = "select"
    /\ Len(req[r].decisions) < Len(configured)
    /\ LET p        == configured[Len(req[r].decisions) + 1]
           res      == allow_request(breaker[p])
           hasTrial == \E i \in 1..Len(req[r].kept) : req[r].kept[i] \in req[r].held
           keep     == keeps(res.decision, hasTrial)
           reserved == res.decision = "AllowedAsTrial"
       IN  /\ breaker' = [breaker EXCEPT ![p] =
                            IF reserved /\ ~keep THEN release_trial(res.bk) ELSE res.bk]
           /\ req' = [req EXCEPT
                        ![r].decisions = Append(@, res.decision),
                        ![r].kept = IF keep THEN Append(@, p) ELSE @,
                        ![r].reservations = IF reserved /\ keep THEN Append(@, p) ELSE @,
                        ![r].held = IF reserved /\ keep THEN @ \cup {p} ELSE @]
    /\ UNCHANGED <<configured, notGw>>

(***************************************************************************)
(* 4.3 RequestContext::new                                                 *)
(***************************************************************************)
\* a map_err that reports every router error as a store failure
map_select_error_flat(e) == "DatabaseError"

\* map_err of the select_providers call
map_select_error(e) ==
    CASE e = "AllProvidersCircuitOpen" -> "AllProvidersCircuitOpen"
      [] e = "NoProvidersConfigured"   -> "NoProvidersConfigured"
      [] OTHER                         -> "DatabaseError"

\* the outcome of RequestContext::new for a router answer
context_result(sel) ==
    IF ~sel.ok
    THEN [ok |-> FALSE, error |-> map_select_error(sel.err),
          providers |-> <<>>, provider |-> NoProvider]
    ELSE IF sel.list = <<>>
         THEN [ok |-> FALSE, error |-> "NoAvailableProvider",
               providers |-> <<>>, provider |-> NoProvider]
         ELSE [ok |-> TRUE, error |-> "none",
               providers |-> sel.list, provider |-> sel.list[1]]

\* request entry: read the app proxy configuration, then call select_providers
ContextBegin(r) ==
    /\ req[r].pc = "idle"
    /\ \A q \in Requests : q < r => req[q].pc # "idle"
    /\ \E cfgOk \in BOOLEAN, storeOk \in BOOLEAN :
          req' = [req EXCEPT ![r] =
                    IF ~cfgOk
                    THEN Finished("DatabaseError", NoProvider, NoProvider)
                    ELSE IF ~storeOk
                    THEN Finished(context_result(
                                      [ok |-> FALSE, list |-> <<>>, err |-> "Database"]).error,
                                  NoProvider, NoProvider)
                    ELSE [@ EXCEPT !.pc = "select", !.selCalls = @ + 1]]
    /\ UNCHANGED <<configured, breaker, notGw>>

\* a context failure that is logged as a failed request of the first provider
ContextEndLogged(r) ==
    /\ req[r].pc = "select"
    /\ Len(req[r].decisions) = Len(configured)
    /\ LET res == context_result(select_result(req[r].kept, Len(configured)))
       IN  req' = [req EXCEPT ![r] =
                     IF res.ok
                     THEN [@ EXCEPT !.pc = "ctx", !.ctxProviders = res.providers,
                                    !.ctxProvider = res.provider]
                     ELSE Finished(res.error, NoProvider,
                                   IF configured = <<>> THEN NoProvider ELSE configured[1])]
    /\ UNCHANGED <<configured, breaker, notGw>>

\* select_providers has returned: build the context or fail the request
ContextEnd(r) ==
    /\ req[r].pc = "select"
    /\ Len(req[r].decisions) = Len(configured)
    /\ LET res == context_result(select_result(req[r].kept, Len(configured)))
       IN  req' = [req EXCEPT ![r] =
                     IF res.ok
                     THEN [@ EXCEPT !.pc = "ctx", !.ctxProviders = res.providers,
                                    !.ctxProvider = res.provider]
                     ELSE Finished(res.error, NoProvider, NoProvider)]
    /\ UNCHANGED <<configured, breaker, notGw>>

\* a get_providers that hands out only the head of the chain
get_providers_head(rq) == <<rq.ctxProvider>>

\* RequestContext::get_providers
get_providers(rq) == rq.ctxProviders

(***************************************************************************)
(* Handlers and 4.4 forward_with_retry                                     *)
(***************************************************************************)
\* the handler builds the forwarder and hands it the context's chain
HandlerForward(r) ==
    /\ req[r].pc = "ctx"
    /\ req' = [req EXCEPT ![r].pc = "forward",
                          ![r].chain = get_providers(req[r]),
                          ![r].idx = 1]
    /\ UNCHANGED <<configured, breaker, notGw>>

\* a forwarder that gives up after the first transport failure
ForwardAttemptNoFailover(r) ==
    /\ req[r].pc = "forward"
    /\ IF req[r].idx > Len(req[r].chain)
       THEN /\ req' = [req EXCEPT ![r].pc = "err"]
            /\ UNCHANGED breaker
       ELSE \E ok \in BOOLEAN :
              LET p == req[r].chain[req[r].idx]
              IN  /\ breaker' = [breaker EXCEPT ![p] = record_outcome(@, ok)]
                  /\ req' = [req EXCEPT
                               ![r].attempts = Append(@, [p |-> p, ok |-> ok]),
                               ![r].held = @ \ {p},
                               ![r].resProvider = p,
                               ![r].idx = @ + 1,
                               ![r].pc = IF ok THEN "ok" ELSE "err"]
    /\ UNCHANGED <<configured, notGw>>

\* one upstream attempt of forward_with_retry and its report to the router
ForwardAttempt(r) ==
    /\ req[r].pc = "forward"
    /\ IF req[r].idx > Len(req[r].chain)
       THEN /\ req' = [req EXCEPT ![r].pc = "err"]
            /\ UNCHANGED breaker
       ELSE \E ok \in BOOLEAN :
              LET p == req[r].chain[req[r].idx]
              IN  /\ breaker' = [breaker EXCEPT ![p] = record_outcome(@, ok)]
                  /\ req' = [req EXCEPT
                               ![r].attempts = Append(@, [p |-> p, ok |-> ok]),
                               ![r].held = @ \ {p},
                               ![r].resProvider = p,
                               ![r].idx = @ + 1,
                               ![r].pc = IF ok THEN "ok"
                                         ELSE IF req[r].idx = Len(req[r].chain)
                                              THEN "err" ELSE "forward"]
    /\ UNCHANGED <<configured, notGw>>

\* an Ok arm that leaves ctx.provider at the head of the chain
HandlerOkKeepsHead(r) ==
    /\ req[r].pc = "ok"
    /\ req' = [req EXCEPT ![r] = Finished("none", req[r].ctxProvider, NoProvider)]
    /\ UNCHANGED <<configured, breaker, notGw>>

\* Ok(result): ctx.provider = result.provider, then the response pipeline
HandlerOk(r) ==
    /\ req[r].pc = "ok"
    /\ req' = [req EXCEPT ![r] = Finished("none", req[r].resProvider, NoProvider)]
    /\ UNCHANGED <<configured, breaker, notGw>>

\* Err(err): ctx.provider = err.provider when present, log_forward_error, return
HandlerErr(r) ==
    /\ req[r].pc = "err"
    /\ LET prov == IF req[r].resProvider # NoProvider
                   THEN req[r].resProvider ELSE req[r].ctxProvider
       IN  req' = [req EXCEPT ![r] = Finished("ForwardFailed", prov, prov)]
    /\ UNCHANGED <<configured, breaker, notGw>>

\* the cool-down of an Open breaker elapses
CoolDown(p) ==
    /\ breaker[p].state = "Open"
    /\ ~breaker[p].cooled
    /\ breaker' = [breaker EXCEPT ![p].cooled = TRUE]
    /\ UNCHANGED <<configured, req, notGw>>

(***************************************************************************)
(* Specification of request handling                                       *)
(***************************************************************************)
\* the store holds no provider of the app type, or the full failover order
StoreChoices == {<<>>, ProviderOrder}

\* Breakers live for the process lifetime: a request may find a breaker in any
\* state earlier traffic left it in.  OpenSeed: FailureThreshold consecutive
\* failures, cool-down running.  WarmSeed: Closed after MinRequests - 1
\* outcomes of which the last was a success and the others failures.
OpenSeed ==
    [state |-> "Open", failures |-> FailureThreshold, successes |-> 0,
     total |-> FailureThreshold, failed |-> FailureThreshold,
     trials |-> 0, cooled |-> FALSE]

WarmSeed ==
    [state |-> "Closed", failures |-> 0, successes |-> 0,
     total |-> MinRequests - 1, failed |-> MinRequests - 2,
     trials |-> 0, cooled |-> FALSE]

BreakerSeeds(p) ==
    IF p = ProviderOrder[1] THEN {NewBreaker, OpenSeed, WarmSeed}
                            ELSE {NewBreaker, OpenSeed}

\* the timeout view at rest
NewTimeoutContext ==
    [pc |-> "idle", app_config |-> "none", forwarder |-> "none", streaming |-> "none"]

Finishers == 1..MaxFinishers

\* the two callbacks a collector is built with: the one of create_usage_collector
\* (pass-through responses) and the one of handle_claude_transform
CollectorKinds == {"passthrough", "transform"}

\* the HTTP statuses of the upstream responses handed to the response pipeline
UpstreamStatuses == {200, 429}

\* the first HTTP status that marks a failed request
FirstErrorStatus == 400

\* SseUsageCollector::new with a callback that has captured the upstream's
\* status; an Option is a sequence of length at most one
NewCollector(kind, status_code) ==
    [kind |-> kind, status_code |-> status_code, finished |-> FALSE, events |-> <<>>, first_event_time |-> <<>>,
     start_time |-> 0, callbacks |-> 0]

NewFinisher == [pc |-> "idle", calls |-> 0, prev |-> FALSE, events |-> <<>>, first_token_ms |-> <<>>]

NewPusher == [pc |-> "idle", event |-> "none", pushed |-> 0]

\* no stream is being collected
ColIdle ==
    /\ collector = NewCollector("passthrough", 200)
    /\ usageLog = <<>>
    /\ fin = [c \in Finishers |-> NewFinisher]
    /\ pusher = NewPusher
    /\ clock = 0

\* the generator before its first poll
NewRelay(timeout_config) ==
    [pc |-> "start", buffer |-> <<>>, is_first_chunk |-> TRUE,
     timeout_config |-> timeout_config, waited |-> 0,
     pushed |-> <<>>, endCause |-> "none"]

\* the upstream stream: what it will send, how much of it has been read, the
\* chunks it was read in, and whether the stream is still held (not dropped)
NewUpstream(wire) == [wire |-> wire, pos |-> 0, chunks |-> <<>>, live |-> TRUE]

\* no stream is being relayed
RelIdle ==
    /\ relay = NewRelay([first_byte_timeout |-> 0, idle_timeout |-> 0])
    /\ upstream = NewUpstream(<<>>)
    /\ items = <<>>

\* the pricing settings the schema gives a new installation: no provider
\* override, multiplier 1 (in tenths), source "response"
DefaultPricing ==
    [provider_multiplier |-> <<>>, provider_source |-> <<>>,
     default_multiplier |-> 10, default_source |-> "response"]

NoTokens ==
    [input_tokens |-> 0, output_tokens |-> 0,
     cache_read_tokens |-> 0, cache_creation_tokens |-> 0]

NewCostRun(model, usage) ==
    [pc |-> "start", model |-> model, request_model |-> "req-model",
     usage |-> usage, resolved |-> <<>>]

\* no usage is being priced
CostIdle ==
    /\ pricing = DefaultPricing
    /\ costRun = NewCostRun("resp-model", NoTokens)
    /\ requestLogs = <<>>

NoBody == [json |-> FALSE, parser_usage |-> <<>>, json_model |-> <<>>]

NoMemory == [enabled |-> FALSE, request_text |-> FALSE, response_text |-> FALSE]

\* what the handler has in hand after forward_with_retry: the forward error,
\* or the upstream response (status, body, content type) with the request's
\* declared model, the stream parser's and the model extractor's results, and
\* the conversation memory's view of the exchange
NewInput(outcome) ==
    [outcome |-> outcome, error |-> "none", is_stream |-> FALSE, status |-> 200,
     read_ok |-> TRUE, body |-> NoBody, request_model |-> "req-model",
     memory |-> NoMemory, stream_usage |-> FALSE, stream_model |-> "req-model"]

NewPipe(input) ==
    [pc |-> "start", input |-> input, response |-> <<>>, items |-> <<>>]

\* no response is being processed
PlIdle ==
    /\ pipe = NewPipe(NewInput("buffered"))
    /\ tasks = <<>>
    /\ warnings = 0

\* the callers of start() and stop()
Callers == {"a", "b"}

\* ProxyServer::new: no shutdown handle, no task handle, ProxyStatus::default()
NewServer(addr_valid, port_fixed) ==
    [addr_valid |-> addr_valid, port_fixed |-> port_fixed,
     shutdown_tx |-> 0, server_handle |-> 0, running |-> FALSE, start_time |-> 0]

\* a caller with no call in progress
NewCall ==
    [op |-> "none", pc |-> "idle", result |-> "none", task |-> 0, waited |-> 0]

\* no server has been started
SrvIdle ==
    /\ server = NewServer(TRUE, TRUE)
    /\ srvTasks = <<>>
    /\ calls = [c \in Callers |-> NewCall]

\* a Gemini request whose context has the model of RequestContext::new
NewUriRun(uri) == [pc |-> "new", uri |-> uri, request_model |-> <<"body-model">>]

\* no Gemini request is being handled
UriIdle == uriRun = NewUriRun(<<"/">>)

\* the app types of the gateway
AppTypes == {"claude", "codex", "gemini"}

\* a get_status call: its position and the active_targets it returned
NewStatusView == [pc |-> "idle", active_targets |-> {}]

\* no active target has been set and no status has been read
TgtIdle ==
    /\ currentProviders = {}
    /\ statusView = NewStatusView

\* the specifications that follow the first four are at rest
ExtIdle == CostIdle /\ PlIdle /\ SrvIdle /\ UriIdle /\ TgtIdle

\* no request is reading timeouts; the timeout row, which provider selection
\* and forwarding do not read, is held at one value
ToIdle ==
    /\ proxyConfig = [auto_failover_enabled |-> FALSE, non_streaming_timeout |-> 0,
                      streaming_first_byte_timeout |-> 0, streaming_idle_timeout |-> 0]
    /\ tctx = NewTimeoutContext

Init ==
    /\ ToIdle
    /\ ExtIdle
    /\ ColIdle
    /\ RelIdle
    /\ configured \in StoreChoices
    /\ breaker \in [Providers -> {NewBreaker, OpenSeed, WarmSeed}]
    /\ \A p \in Providers : breaker[p] \in BreakerSeeds(p)
    /\ configured = <<>> => breaker = [p \in Providers |-> NewBreaker]
    /\ req = [r \in Requests |-> NewRequest]

Next ==
    \/ \E r \in Requests : ContextBegin(r)
    \/ \E r \in Requests : SelectStep(r)
    \/ \E r \in Requests : ContextEnd(r)
    \/ \E r \in Requests : HandlerForward(r)
    \/ \E r \in Requests : ForwardAttempt(r)
    \/ \E r \in Requests : HandlerOk(r)
    \/ \E r \in Requests : HandlerErr(r)
    \/ \E p \in Providers : CoolDown(p)

Spec == Init /\ [][Next]_vars

(***************************************************************************)
(* Claims about request handling                                           *)
(***************************************************************************)
SeqToSet(s) == {s[i] : i \in 1..Len(s)}

IndexOf(s, x) == CHOOSE i \in 1..Len(s) : s[i] = x

Count(s, x) == Cardinality({i \in 1..Len(s) : s[i] = x})

\* request r made a step of the selection loop: the provider consulted and the decision
Consulted(r) == Len(req'[r].decisions) = Len(req[r].decisions) + 1

ConsultedProvider(r) == configured[Len(req[r].decisions) + 1]

\* request r made an upstream attempt in this step
Attempted(r) == Len(req'[r].attempts) = Len(req[r].attempts) + 1

\* C1: select_providers is invoked at most once per request: RequestContext::new
\* calls it once, the forwarder walks that same list (ctx.get_providers()), and
\* no request reserves the trial slot of one breaker more than once.
C1_SelectOnce ==
    \A r \in Requests :
        /\ req[r].selCalls <= 1
        /\ req[r].pc \in {"forward", "ok", "err"} =>
               /\ req[r].selCalls = 1
               /\ req[r].chain = req[r].ctxProviders
               /\ req[r].chain = req[r].kept
        /\ \A p \in Providers : Count(req[r].reservations, p) <= 1

\* a request whose forwarder walked a chain of several providers holding one trial
C1_Witness ==
    \E r \in Requests :
        /\ req[r].pc = "ok"
        /\ Len(req[r].chain) >= 2
        /\ req[r].reservations # <<>>

\* C2: threshold consecutive failures open a Closed breaker, and once the
\* cool-down has elapsed the allow_request calls of concurrent requests grant
\* exactly one trial: the first call receives AllowedAsTrial and moves the
\* breaker to HalfOpen, every call made while that slot is reserved receives a
\* non-trial decision.
C2_Step ==
    /\ \A r \in Requests :
          Consulted(r) =>
             LET p == ConsultedProvider(r)
                 d == Last(req'[r].decisions)
             IN  /\ (breaker[p].state = "Open" /\ breaker[p].cooled) =>
                        d = "AllowedAsTrial"
                 /\ (breaker[p].state = "Open" /\ ~breaker[p].cooled) =>
                        d = "Rejected"
                 /\ breaker[p].trials >= HalfOpenMaxTrials => d = "Rejected"
                 /\ d = "AllowedAsTrial" =>
                        /\ breaker[p].trials = 0
                        /\ breaker'[p].state = "HalfOpen"
                 /\ p \in req'[r].held => breaker'[p].trials = 1
    /\ \A r \in Requests :
          Attempted(r) =>
             LET a == Last(req'[r].attempts)
             IN  (/\ breaker[a.p].state = "Closed"
                  /\ ~a.ok
                  /\ breaker[a.p].failures + 1 >= FailureThreshold) =>
                     breaker'[a.p].state = "Open"
    /\ \A p \in Providers :
          /\ breaker'[p].trials <= HalfOpenMaxTrials
          /\ breaker'[p].state = "Closed" => breaker'[p].failures < FailureThreshold

C2_OneTrial == [][C2_Step]_vars

\* two requests are in flight; one holds the trial slot of a HalfOpen breaker,
\* the other was rejected by that breaker
C2_Witness ==
    \E r1, r2 \in Requests : \E i \in 1..Len(configured) :
        /\ r1 # r2
        /\ InFlight(r1) /\ InFlight(r2)
        /\ configured[i] \in req[r1].held
        /\ breaker[configured[i]].state = "HalfOpen"
        /\ Len(req[r2].decisions) >= i
        /\ req[r2].decisions[i] = "Rejected"

\* C3: in HalfOpen a success increments the success counter and the success
\* threshold closes the breaker with its counters reset; a failure reopens it
\* at once and restarts the cool-down, whatever the successes counted so far.
C3_Step ==
    \A r \in Requests :
        Attempted(r) =>
           LET a  == Last(req'[r].attempts)
               b  == breaker[a.p]
               b2 == breaker'[a.p]
           IN  b.state = "HalfOpen" =>
                 IF a.ok
                 THEN IF b.successes + 1 >= SuccessThreshold
                      THEN /\ b2.state = "Closed"
                           /\ b2.failures = 0 /\ b2.successes = 0
                           /\ b2.total = 0 /\ b2.failed = 0 /\ b2.trials = 0
                      ELSE /\ b2.state = "HalfOpen"
                           /\ b2.successes = b.successes + 1
                 ELSE /\ b2.state = "Open"
                      /\ ~b2.cooled
                      /\ b2.successes = 0

C3_HalfOpen == [][C3_Step]_vars

\* a trial has just failed: the breaker is Open again and its cool-down has
\* restarted
C3_Witness ==
    \E r \in Requests :
        /\ req[r].pc \in {"forward", "err"}
        /\ req[r].attempts # <<>>
        /\ ~Last(req[r].attempts).ok
        /\ Last(req[r].attempts).p \in SeqToSet(req[r].reservations)
        /\ breaker[Last(req[r].attempts).p].state = "Open"
        /\ ~breaker[Last(req[r].attempts).p].cooled

\* C4 (as claimed): a breaker keeps a trial slot reserved only while a request
\* that holds the reservation is in flight.
C4_ReservationReleased ==
    \A p \in Providers :
        breaker[p].trials > 0 =>
            \E r \in Requests : InFlight(r) /\ p \in req[r].held

\* positions of the store order whose provider select_providers keeps, told
\* from the decisions alone
FirstTrial(d) ==
    IF \E i \in 1..Len(d) : d[i] = "AllowedAsTrial"
    THEN CHOOSE i \in 1..Len(d) :
            /\ d[i] = "AllowedAsTrial"
            /\ \A j \in 1..(i - 1) : d[j] # "AllowedAsTrial"
    ELSE 0

\* C5: the chain preserves the store order, contains every Allowed provider,
\* contains of the AllowedAsTrial providers only the first in order and contains
\* no Rejected provider; decisions <<Rejected, Allowed, Allowed>> on [A, B, C]
\* yield [B, C].
C5_Chain ==
    \A r \in Requests :
        req[r].pc = "select" =>
            LET d    == req[r].decisions
                kept == req[r].kept
            IN  /\ \A a, b \in 1..Len(kept) :
                      a < b => IndexOf(configured, kept[a]) < IndexOf(configured, kept[b])
                /\ \A a \in 1..Len(kept) : IndexOf(configured, kept[a]) <= Len(d)
                /\ \A i \in 1..Len(d) :
                      /\ d[i] = "Allowed" => configured[i] \in SeqToSet(kept)
                      /\ d[i] = "Rejected" => configured[i] \notin SeqToSet(kept)
                      /\ d[i] = "AllowedAsTrial" =>
                            (configured[i] \in SeqToSet(kept) <=> i = FirstTrial(d))
                /\ Cardinality({i \in 1..Len(d) :
                                   d[i] = "AllowedAsTrial"
                                   /\ configured[i] \in SeqToSet(kept)}) <= 1
                /\ (configured = <<"A", "B", "C">> /\ d = <<"Rejected", "Allowed", "Allowed">>)
                      => kept = <<"B", "C">>

\* the selection over [A(open), B(closed), C(closed)] has consulted all three
C5_Witness ==
    \E r \in Requests :
        /\ req[r].pc = "select"
        /\ configured = <<"A", "B", "C">>
        /\ req[r].decisions = <<"Rejected", "Allowed", "Allowed">>
        /\ req[r].kept = <<"B", "C">>

\* a second provider was granted a trial and left out of the chain
C5_SecondTrialDropped ==
    \E r \in Requests :
        /\ req[r].pc = "select"
        /\ Count(req[r].decisions, "AllowedAsTrial") >= 2

\* C6: RequestContext::new never succeeds with an empty chain: no configured
\* provider gives NoProvidersConfigured, every provider rejected gives
\* AllProvidersCircuitOpen, any other router error gives DatabaseError, an
\* Ok-but-empty list gives NoAvailableProvider, and Ok carries a non-empty
\* chain whose head is ctx.provider.
C6_Step ==
    /\ \A r \in Requests :
          (req[r].pc = "select" /\ req'[r].pc # "select") =>
             IF configured = <<>>
             THEN req'[r].pc = "done" /\ req'[r].error = "NoProvidersConfigured"
             ELSE IF \A i \in 1..Len(req[r].decisions) : req[r].decisions[i] = "Rejected"
             THEN req'[r].pc = "done" /\ req'[r].error = "AllProvidersCircuitOpen"
             ELSE /\ req'[r].pc = "ctx"
                  /\ req'[r].error = "none"
                  /\ req'[r].ctxProviders # <<>>
                  /\ req'[r].ctxProviders = req[r].kept
                  /\ req'[r].ctxProvider = req'[r].ctxProviders[1]
    /\ \A r \in Requests :
          (req[r].pc = "idle" /\ req'[r].pc = "done") => req'[r].error = "DatabaseError"
    /\ \A r \in Requests :
          req'[r].pc \in {"ctx", "forward"} => req'[r].ctxProviders # <<>>
    /\ LET empty == context_result([ok |-> TRUE, list |-> <<>>, err |-> "none"])
       IN  ~empty.ok /\ empty.error = "NoAvailableProvider"

C6_ContextResult == [][C6_Step]_vars

\* a request was refused because every configured provider was rejected
C6_Witness ==
    \E r \in Requests :
        /\ req[r].pc = "done"
        /\ req[r].error = "AllProvidersCircuitOpen"
        /\ configured # <<>>

\* C7: forward_with_retry attempts the chain in order, one candidate at a time;
\* a transport failure is reported to the router and the next candidate is
\* attempted before any failure is returned; it returns the first delivered
\* response with the provider that served it, and with no candidate left a
\* failure tagged with the last provider attempted.
C7_Step ==
    /\ \A r \in Requests :
          Attempted(r) =>
             LET a == Last(req'[r].attempts)
                 n == Len(req'[r].attempts)
             IN  /\ a.p = req[r].chain[n]
                 /\ breaker'[a.p] = record_outcome(breaker[a.p], a.ok)
                 /\ \A q \in Providers \ {a.p} : breaker'[q] = breaker[q]
                 /\ (~a.ok /\ n < Len(req[r].chain)) => req'[r].pc = "forward"
    /\ \A r \in Requests :
          req'[r].pc \in {"forward", "ok", "err"} =>
             LET at == req'[r].attempts
                 n  == Len(at)
             IN  /\ n <= Len(req'[r].chain)
                 /\ \A i \in 1..n : at[i].p = req'[r].chain[i]
                 /\ \A i \in 1..(n - 1) : ~at[i].ok
                 /\ req'[r].pc = "forward" =>
                       /\ n < Len(req'[r].chain)
                       /\ \A i \in 1..n : ~at[i].ok
                 /\ req'[r].pc = "ok" =>
                       /\ n >= 1 /\ at[n].ok
                       /\ req'[r].resProvider = at[n].p
                 /\ req'[r].pc = "err" =>
                       /\ n = Len(req'[r].chain)
                       /\ \A i \in 1..n : ~at[i].ok
                       /\ req'[r].resProvider = req'[r].chain[n]

C7_Failover == [][C7_Step]_vars

\* the first candidate failed at transport level and the second one served
C7_Witness ==
    \E r \in Requests :
        /\ req[r].pc = "ok"
        /\ Len(req[r].attempts) = 2
        /\ ~req[r].attempts[1].ok
        /\ req[r].resProvider = req[r].chain[2]

(***************************************************************************)
(* Timeout values of a request (handler_context.rs)                        *)
(***************************************************************************)
ProxyConfigs ==
    [auto_failover_enabled : BOOLEAN,
     non_streaming_timeout : 0..MaxTimeout,
     streaming_first_byte_timeout : 0..MaxTimeout,
     streaming_idle_timeout : 0..MaxTimeout]

\* the timeouts handed to RequestForwarder::new (the casts widen unsigned values)
create_forwarder(app_config) ==
    IF app_config.auto_failover_enabled
    THEN [non_streaming_timeout |-> app_config.non_streaming_timeout,
          first_byte_timeout    |-> app_config.streaming_first_byte_timeout,
          idle_timeout          |-> app_config.streaming_idle_timeout]
    ELSE [non_streaming_timeout |-> 0, first_byte_timeout |-> 0, idle_timeout |-> 0]

\* a streaming_timeout_config that does not look at auto_failover_enabled
streaming_timeout_config_always(app_config) ==
    [first_byte_timeout |-> app_config.streaming_first_byte_timeout,
     idle_timeout       |-> app_config.streaming_idle_timeout]

\* StreamingTimeoutConfig of the request
streaming_timeout_config(app_config) ==
    IF app_config.auto_failover_enabled
    THEN [first_byte_timeout |-> app_config.streaming_first_byte_timeout,
          idle_timeout       |-> app_config.streaming_idle_timeout]
    ELSE [first_byte_timeout |-> 0, idle_timeout |-> 0]

\* the proxy settings of the app are saved (administrative)
SetProxyConfig ==
    /\ \E cfg \in ProxyConfigs : proxyConfig' = cfg
    /\ proxyConfig' # proxyConfig
    /\ UNCHANGED <<tctx, notTo>>

\* RequestContext::new reads the app's proxy configuration
ReadAppConfig ==
    /\ tctx.pc = "idle"
    /\ tctx' = [NewTimeoutContext EXCEPT !.pc = "ctx", !.app_config = proxyConfig]
    /\ UNCHANGED <<proxyConfig, notTo>>

\* the handler builds the forwarder
CreateForwarder ==
    /\ tctx.pc = "ctx"
    /\ tctx' = [tctx EXCEPT !.pc = "forwarded",
                            !.forwarder = create_forwarder(tctx.app_config)]
    /\ UNCHANGED <<proxyConfig, notTo>>

\* handle_streaming asks for the streaming timeouts of the request
StreamingTimeouts ==
    /\ tctx.pc = "forwarded"
    /\ tctx' = [tctx EXCEPT !.pc = "streaming",
                            !.streaming = streaming_timeout_config(tctx.app_config)]
    /\ UNCHANGED <<proxyConfig, notTo>>

\* the request completes (buffered responses never ask for streaming timeouts)
TimeoutContextDrop ==
    /\ tctx.pc \in {"forwarded", "streaming"}
    /\ tctx' = NewTimeoutContext
    /\ UNCHANGED <<proxyConfig, notTo>>

GwIdle ==
    /\ configured = <<>>
    /\ breaker = [p \in Providers |-> NewBreaker]
    /\ req = [r \in Requests |-> NewRequest]

InitTimeouts ==
    /\ GwIdle
    /\ ExtIdle
    /\ ColIdle
    /\ RelIdle
    /\ proxyConfig \in ProxyConfigs
    /\ tctx = NewTimeoutContext

NextTimeouts ==
    \/ SetProxyConfig
    \/ ReadAppConfig
    \/ CreateForwarder
    \/ StreamingTimeouts
    \/ TimeoutContextDrop

SpecTimeouts == InitTimeouts /\ [][NextTimeouts]_vars

\* C8: with auto_failover_enabled false the non-streaming, first-byte and idle
\* timeouts of the request are all 0 whatever is configured, in the forwarder
\* and in streaming_timeout_config alike; with it true each equals its
\* configured value.
C8_Timeouts ==
    LET cfg == tctx.app_config
    IN  /\ tctx.pc \in {"forwarded", "streaming"} =>
              IF cfg.auto_failover_enabled
              THEN /\ tctx.forwarder.non_streaming_timeout = cfg.non_streaming_timeout
                   /\ tctx.forwarder.first_byte_timeout = cfg.streaming_first_byte_timeout
                   /\ tctx.forwarder.idle_timeout = cfg.streaming_idle_timeout
              ELSE /\ tctx.forwarder.non_streaming_timeout = 0
                   /\ tctx.forwarder.first_byte_timeout = 0
                   /\ tctx.forwarder.idle_timeout = 0
        /\ tctx.pc = "streaming" =>
              /\ IF cfg.auto_failover_enabled
                 THEN /\ tctx.streaming.first_byte_timeout = cfg.streaming_first_byte_timeout
                      /\ tctx.streaming.idle_timeout = cfg.streaming_idle_timeout
                 ELSE /\ tctx.streaming.first_byte_timeout = 0
                      /\ tctx.streaming.idle_timeout = 0
              /\ tctx.streaming.first_byte_timeout = tctx.forwarder.first_byte_timeout
              /\ tctx.streaming.idle_timeout = tctx.forwarder.idle_timeout

\* failover is disabled, all three timeouts are configured non-zero, and the
\* request has built its forwarder and its streaming timeouts
C8_Witness ==
    /\ tctx.pc = "streaming"
    /\ ~tctx.app_config.auto_failover_enabled
    /\ tctx.app_config.non_streaming_timeout > 0
    /\ tctx.app_config.streaming_first_byte_timeout > 0
    /\ tctx.app_config.streaming_idle_timeout > 0
    /\ tctx.forwarder.non_streaming_timeout = 0
    /\ tctx.streaming.idle_timeout = 0

(***************************************************************************)
(* SseUsageCollector (response_processor.rs)                               *)
(***************************************************************************)
\* the JSON values of a stream: "e1" carries no usage, "e2" carries usage
EventValues == {"e1", "e2"}

\* the usage parser of the protocol: None unless an event carries usage
stream_parser(events) ==
    IF \E i \in 1..Len(events) : events[i] = "e2" THEN <<"usage">> ELSE <<>>

\* finished.load: reads the flag and leaves it as it is
load_finished(col) == [prev |-> col.finished, col |-> col]

\* finished.swap(true, SeqCst): sets the flag and returns what it was
swap_finished(col) ==
    [prev |-> col.finished, col |-> [col EXCEPT !.finished = TRUE]]

\* the usage record a callback submits
UsageRecord(status_code, usage, events, first_token_ms) ==
    [status_code |-> status_code, usage |-> usage, events |-> events,
     first_token_ms |-> first_token_ms, is_streaming |-> TRUE]

\* the records one invocation of the callback submits.  The callback of
\* create_usage_collector spawns log_usage_internal in either branch of the
\* usage parse, with the parsed usage or with TokenUsage::default(); the one
\* of handle_claude_transform spawns log_usage only when usage was parsed.
on_complete(col, events, first_token_ms) ==
    LET usage == stream_parser(events)
    IN  IF usage # <<>>
        THEN <<UsageRecord(col.status_code, usage, events, first_token_ms)>>
        ELSE IF col.kind = "passthrough"
             THEN <<UsageRecord(col.status_code, <<"default">>, events, first_token_ms)>>
             ELSE <<>>

Tick ==
    /\ clock < MaxClock
    /\ clock' = clock + 1
    /\ UNCHANGED <<collector, usageLog, fin, pusher, notCol>>

\* push(): the first event's time is recorded under its own lock ...
PushFirstTime ==
    /\ pusher.pc = "idle"
    /\ pusher.pushed < MaxEvents
    /\ \E ev \in EventValues :
          pusher' = [pusher EXCEPT !.pc = "events", !.event = ev]
    /\ collector' = IF collector.first_event_time = <<>>
                    THEN [collector EXCEPT !.first_event_time = <<clock>>]
                    ELSE collector
    /\ UNCHANGED <<usageLog, fin, clock, notCol>>

\* ... and the event is appended under the events lock
PushEvent ==
    /\ pusher.pc = "events"
    /\ collector' = [collector EXCEPT !.events = Append(@, pusher.event)]
    /\ pusher' = [pusher EXCEPT !.pc = "idle", !.event = "none", !.pushed = @ + 1]
    /\ UNCHANGED <<usageLog, fin, clock, notCol>>

\* finish(): the swap; a caller that finds the flag set returns at once
FinishSwap(c) ==
    /\ fin[c].pc = "idle"
    /\ fin[c].calls < MaxFinishCalls
    /\ LET sw == swap_finished(collector)
       IN  /\ collector' = sw.col
           /\ fin' = [fin EXCEPT ![c] =
                        IF sw.prev
                        THEN [@ EXCEPT !.calls = @ + 1, !.prev = TRUE]
                        ELSE [@ EXCEPT !.pc = "take", !.prev = FALSE]]
    /\ UNCHANGED <<usageLog, pusher, clock, notCol>>

\* finish(): std::mem::take of the events
FinishTake(c) ==
    /\ fin[c].pc = "take"
    /\ fin' = [fin EXCEPT ![c].pc = "time", ![c].events = collector.events]
    /\ collector' = [collector EXCEPT !.events = <<>>]
    /\ UNCHANGED <<usageLog, pusher, clock, notCol>>

\* finish(): first_token_ms from the first event's time
FinishTime(c) ==
    /\ fin[c].pc = "time"
    /\ fin' = [fin EXCEPT ![c].pc = "call",
                 ![c].first_token_ms =
                     IF collector.first_event_time = <<>> THEN <<>>
                     ELSE <<collector.first_event_time[1] - collector.start_time>>]
    /\ UNCHANGED <<collector, usageLog, pusher, clock, notCol>>

\* finish(): the callback is invoked and the call returns
FinishCallback(c) ==
    /\ fin[c].pc = "call"
    /\ usageLog' = usageLog \o on_complete(collector, fin[c].events,
                                            fin[c].first_token_ms)
    /\ collector' = [collector EXCEPT !.callbacks = @ + 1]
    /\ fin' = [fin EXCEPT ![c] = [NewFinisher EXCEPT !.calls = fin[c].calls + 1]]
    /\ UNCHANGED <<pusher, clock, notCol>>

InitCollector ==
    /\ GwIdle
    /\ ExtIdle
    /\ ToIdle
    /\ RelIdle
    /\ collector \in {NewCollector(k, st) : k \in CollectorKinds, st \in UpstreamStatuses}
    /\ usageLog = <<>>
    /\ fin = [c \in Finishers |-> NewFinisher]
    /\ pusher = NewPusher
    /\ clock = 0

NextCollector ==
    \/ Tick
    \/ PushFirstTime
    \/ PushEvent
    \/ \E c \in Finishers : FinishSwap(c)
    \/ \E c \in Finishers : FinishTake(c)
    \/ \E c \in Finishers : FinishTime(c)
    \/ \E c \in Finishers : FinishCallback(c)

SpecCollector == InitCollector /\ [][NextCollector]_vars

FinishCallsReturned == \E c \in Finishers : fin[c].calls > 0

NoFinishRunning == \A c \in Finishers : fin[c].pc = "idle"

\* C9: for one collector, whatever the number of finish() calls and however
\* the calls of its clones interleave, on_complete is invoked at most once and
\* at most one usage record is produced; once a call has been made and no call
\* is running, on_complete has been invoked exactly once and exactly one usage
\* record has been produced.
C9_FinishOnce ==
    /\ collector.callbacks <= 1
    /\ Len(usageLog) <= 1
    /\ (FinishCallsReturned /\ NoFinishRunning) =>
          (collector.callbacks = 1 /\ Len(usageLog) = 1)

\* the part of C9 that is about finish() alone: the callback is invoked at
\* most once, and exactly once when a call has been made and none is running
C9_CallbackOnce ==
    /\ collector.callbacks <= 1
    /\ Len(usageLog) <= collector.callbacks
    /\ (FinishCallsReturned /\ NoFinishRunning) => collector.callbacks = 1
    /\ (collector.kind = "passthrough") => Len(usageLog) = collector.callbacks

\* both holders have called finish(), one of them twice in a row, all calls
\* have returned and events had been pushed before
C9_RepeatedFinish ==
    /\ NoFinishRunning
    /\ fin[1].calls = MaxFinishCalls
    /\ fin[2].calls >= 1
    /\ collector.callbacks = 1
    /\ pusher.pushed > 0

(***************************************************************************)
(* create_logged_passthrough_stream (response_processor.rs)                *)
(*                                                                         *)
(* The wire text is a sequence of pieces: "data" is the prefix `data: `,   *)
(* "e1" and "e2" are the texts of two JSON values, "junk" is a text that   *)
(* is not JSON, "DONE" is `[DONE]` and "nl" is a line feed.  "q" is the    *)
(* quote of a JSON string; "u1" and "u2" are the two bytes of one          *)
(* character of the string, "uc" is that character once decoded and "bad"  *)
(* is U+FFFD, which from_utf8_lossy puts for a byte it cannot decode.      *)
(***************************************************************************)
Wires ==
    { <<"data", "e1", "nl", "nl", "data", "e2", "nl", "nl">>,
      <<"data", "e2", "nl", "nl", "data", "DONE", "nl", "nl">>,
      <<"data", "junk", "nl", "nl", "data", "e1", "nl", "nl">>,
      <<"data", "e1", "nl", "data", "e2", "nl", "nl">>,
      <<"nl", "nl", "nl", "data", "e1", "nl", "nl", "data", "e2">>,
      <<"data", "q", "u1", "u2", "q", "nl", "nl">>,
      <<>> }

StreamingTimeoutConfigs ==
    [first_byte_timeout : 0..MaxTimeout, idle_timeout : 0..MaxTimeout]

\* a wait may last one tick longer than the longest deadline
WaitLimit == MaxTimeout + 1

\* buffer.find("\n\n"): the first position of a blank line, 0 when there is none
find_blank(buffer) ==
    LET hits == {i \in 1..(Len(buffer) - 1) : buffer[i] = "nl" /\ buffer[i + 1] = "nl"}
    IN  IF hits = {} THEN 0 ELSE CHOOSE i \in hits : \A j \in hits : i <= j

\* str::lines of a text that holds no blank line
RECURSIVE lines(_)
lines(text) ==
    LET nls == {i \in 1..Len(text) : text[i] = "nl"}
    IN  IF text = <<>> THEN <<>>
        ELSE IF nls = {} THEN <<text>>
        ELSE LET i == CHOOSE k \in nls : \A j \in nls : k <= j
             IN  <<SubSeq(text, 1, i - 1)>> \o lines(SubSeq(text, i + 1, Len(text)))

\* String::from_utf8_lossy of one chunk: a character whose two bytes are both
\* in the chunk is decoded, a byte without its other half becomes U+FFFD
RECURSIVE from_utf8_lossy(_)
from_utf8_lossy(bytes) ==
    IF bytes = <<>> THEN <<>>
    ELSE IF Head(bytes) = "u1" /\ Len(bytes) >= 2 /\ bytes[2] = "u2"
    THEN <<"uc">> \o from_utf8_lossy(SubSeq(bytes, 3, Len(bytes)))
    ELSE IF Head(bytes) \in {"u1", "u2"}
    THEN <<"bad">> \o from_utf8_lossy(Tail(bytes))
    ELSE <<Head(bytes)>> \o from_utf8_lossy(Tail(bytes))

\* the JSON string value with the given characters
RECURSIVE json_string(_)
json_string(chars) ==
    IF chars = <<>> THEN "str" ELSE json_string(SubSeq(chars, 1, Len(chars) - 1))
                                    \o "_" \o chars[Len(chars)]

\* serde_json::from_str of a payload: the value, or nothing when it does not parse
from_str(data) ==
    IF Len(data) = 1 /\ data[1] \in EventValues THEN <<data[1]>>
    ELSE IF /\ Len(data) >= 2
            /\ data[1] = "q"
            /\ data[Len(data)] = "q"
            /\ \A i \in 2..(Len(data) - 1) : data[i] \in {"uc", "bad"}
    THEN <<json_string(SubSeq(data, 2, Len(data) - 1))>>
    ELSE <<>>

\* the JSON value one line of an event gives to the collector, if any
line_event(line) ==
    IF line # <<>> /\ line[1] = "data"
    THEN LET data == Tail(line)
         IN  IF data = <<"DONE">> THEN <<>> ELSE from_str(data)
    ELSE <<>>

RECURSIVE lines_events(_)
lines_events(ls) ==
    IF ls = <<>> THEN <<>> ELSE line_event(Head(ls)) \o lines_events(Tail(ls))

\* the values of one event text (an event of white space only is skipped)
event_values(event_text) ==
    IF \A i \in 1..Len(event_text) : event_text[i] = "nl"
    THEN <<>>
    ELSE lines_events(lines(event_text))

\* the while-let loop over the buffer: the values found and what stays buffered
RECURSIVE drain(_)
drain(buffer) ==
    LET pos == find_blank(buffer)
    IN  IF pos = 0 THEN [buffer |-> buffer, events |-> <<>>]
        ELSE LET rest == drain(SubSeq(buffer, pos + 2, Len(buffer)))
             IN  [buffer |-> rest.buffer,
                  events |-> event_values(SubSeq(buffer, 1, pos - 1)) \o rest.events]

\* SseUsageCollector::push of several values at one instant
RECURSIVE push_all(_, _, _)
push_all(col, events, now) ==
    IF events = <<>> THEN col
    ELSE push_all([col EXCEPT !.first_event_time = IF @ = <<>> THEN <<now>> ELSE @,
                              !.events = Append(@, Head(events))],
                  Tail(events), now)

\* SseUsageCollector::finish run by one task from start to end
finish(col) ==
    LET sw == swap_finished(col)
        first_token_ms == IF col.first_event_time = <<>> THEN <<>>
                          ELSE <<col.first_event_time[1] - col.start_time>>
    IN  IF sw.prev
        THEN [col |-> sw.col, records |-> <<>>]
        ELSE [col |-> [sw.col EXCEPT !.events = <<>>, !.callbacks = @ + 1],
              records |-> on_complete(col, col.events, first_token_ms)]

\* a timeout_duration that applies the first-byte deadline to every wait
timeout_duration_first_byte(rl) == rl.timeout_config.first_byte_timeout

\* the deadline of the current wait, 0 when there is none
timeout_duration(rl) ==
    IF rl.is_first_chunk THEN rl.timeout_config.first_byte_timeout
    ELSE rl.timeout_config.idle_timeout

\* a deadline check in which a zero value is a deadline of zero seconds
DeadlineReached_zero(rl) == rl.waited >= timeout_duration(rl)

DeadlineReached(rl) ==
    timeout_duration(rl) > 0 /\ rl.waited >= timeout_duration(rl)

OkItem(bytes) == [ok |-> TRUE, bytes |-> bytes, error |-> "none"]

ErrItem(error) == [ok |-> FALSE, bytes |-> <<>>, error |-> error]

\* the response body polls the generator
ConsumerPoll ==
    /\ \/ /\ relay.pc \in {"start", "yielded"}
          \* top of the loop: the generator awaits the next upstream item
          /\ relay' = [relay EXCEPT !.pc = "waiting", !.waited = 0]
          /\ UNCHANGED <<collector, usageLog, upstream>>
       \/ /\ relay.pc = "yieldedErr"
          \* after the error item: break, then finish() and the end of the stream
          /\ LET f == finish(collector)
             IN  /\ collector' = f.col
                 /\ usageLog' = usageLog \o f.records
          /\ relay' = [relay EXCEPT !.pc = "done"]
          /\ upstream' = [upstream EXCEPT !.live = FALSE]
    /\ UNCHANGED <<items, clock, notRel>>

\* the response body is dropped (the client went away, or the body gave up
\* after an error item); the generator is dropped where it is suspended
ConsumerDrop ==
    /\ relay.pc \in {"start", "waiting", "yielded", "yieldedErr"}
    /\ relay' = [relay EXCEPT !.pc = "dropped"]
    /\ upstream' = [upstream EXCEPT !.live = FALSE]
    /\ UNCHANGED <<collector, usageLog, items, clock, notRel>>

\* time passes while the generator waits; it cannot pass a deadline unnoticed
WaitTick ==
    /\ relay.pc = "waiting"
    /\ relay.waited < WaitLimit
    /\ ~DeadlineReached(relay)
    /\ relay' = [relay EXCEPT !.waited = @ + 1]
    /\ clock' = IF clock < MaxClock THEN clock + 1 ELSE clock
    /\ UNCHANGED <<collector, usageLog, upstream, items, notRel>>

\* tokio::time::timeout elapses: an error item is yielded
RelayTimeout ==
    /\ relay.pc = "waiting"
    /\ DeadlineReached(relay)
    /\ LET cause == IF relay.is_first_chunk THEN "first_byte_timeout" ELSE "idle_timeout"
       IN  /\ items' = Append(items, ErrItem(cause))
           /\ relay' = [relay EXCEPT !.pc = "yieldedErr", !.endCause = cause]
    /\ UNCHANGED <<collector, usageLog, upstream, clock, notRel>>

\* a relay that yields the decoded text of the chunk instead of its bytes
UpstreamChunkDecoded ==
    /\ relay.pc = "waiting"
    /\ \E k \in 1..MaxChunkLen :
          /\ upstream.pos + k <= Len(upstream.wire)
          /\ LET bytes == SubSeq(upstream.wire, upstream.pos + 1, upstream.pos + k)
                 d == drain(relay.buffer \o from_utf8_lossy(bytes))
             IN  /\ upstream' = [upstream EXCEPT !.pos = @ + k, !.chunks = Append(@, bytes)]
                 /\ collector' = push_all(collector, d.events, clock)
                 /\ relay' = [relay EXCEPT !.pc = "yielded", !.is_first_chunk = FALSE,
                                           !.buffer = d.buffer,
                                           !.pushed = @ \o d.events]
                 /\ items' = Append(items, OkItem(from_utf8_lossy(bytes)))
    /\ UNCHANGED <<usageLog, clock, notRel>>

\* the upstream delivers a chunk: it is parsed for events and yielded
UpstreamChunk ==
    /\ relay.pc = "waiting"
    /\ \E k \in 1..MaxChunkLen :
          /\ upstream.pos + k <= Len(upstream.wire)
          /\ LET bytes == SubSeq(upstream.wire, upstream.pos + 1, upstream.pos + k)
                 d == drain(relay.buffer \o from_utf8_lossy(bytes))
             IN  /\ upstream' = [upstream EXCEPT !.pos = @ + k, !.chunks = Append(@, bytes)]
                 /\ collector' = push_all(collector, d.events, clock)
                 /\ relay' = [relay EXCEPT !.pc = "yielded", !.is_first_chunk = FALSE,
                                           !.buffer = d.buffer,
                                           !.pushed = @ \o d.events]
                 /\ items' = Append(items, OkItem(bytes))
    /\ UNCHANGED <<usageLog, clock, notRel>>

\* an upstream read error after which the loop goes on (no break)
UpstreamErrorContinue ==
    /\ relay.pc = "waiting"
    /\ items' = Append(items, ErrItem("upstream_error"))
    /\ relay' = [relay EXCEPT !.pc = "yielded", !.endCause = "upstream_error"]
    /\ UNCHANGED <<collector, usageLog, upstream, clock, notRel>>

\* the upstream read fails: an error item is yielded
UpstreamError ==
    /\ relay.pc = "waiting"
    /\ items' = Append(items, ErrItem("upstream_error"))
    /\ relay' = [relay EXCEPT !.pc = "yieldedErr", !.endCause = "upstream_error"]
    /\ UNCHANGED <<collector, usageLog, upstream, clock, notRel>>

\* the upstream ends: break, then finish() and the end of the stream
UpstreamEof ==
    /\ relay.pc = "waiting"
    /\ upstream.pos = Len(upstream.wire)
    /\ LET f == finish(collector)
       IN  /\ collector' = f.col
           /\ usageLog' = usageLog \o f.records
    /\ relay' = [relay EXCEPT !.pc = "done", !.endCause = "eof"]
    /\ upstream' = [upstream EXCEPT !.live = FALSE]
    /\ UNCHANGED <<items, clock, notRel>>

InitRelay ==
    /\ GwIdle
    /\ ExtIdle
    /\ ToIdle
    /\ collector \in {NewCollector(k, st) : k \in CollectorKinds, st \in UpstreamStatuses}
    /\ usageLog = <<>>
    /\ fin = [c \in Finishers |-> NewFinisher]
    /\ pusher = NewPusher
    /\ clock = 0
    /\ relay \in {NewRelay(tc) : tc \in StreamingTimeoutConfigs}
    /\ upstream \in {NewUpstream(w) : w \in Wires}
    /\ items = <<>>

NextRelay ==
    \/ ConsumerPoll
    \/ ConsumerDrop
    \/ WaitTick
    \/ RelayTimeout
    \/ UpstreamChunk
    \/ UpstreamError
    \/ UpstreamEof

SpecRelay == InitRelay /\ [][NextRelay]_vars

\* the relayed stream has ended: the upstream ended or failed or a deadline
\* passed, and the generator has returned or has been dropped
StreamEnded ==
    /\ relay.endCause \in {"eof", "upstream_error", "first_byte_timeout", "idle_timeout"}
    /\ relay.pc \in {"done", "dropped"}

\* C10: every relayed stream that has ended by upstream EOF, upstream read
\* error, first-byte timeout or idle timeout has run finalization exactly once,
\* and the finalization received all events pushed during the relay, in push
\* order.
C10_FinalizedOnce ==
    StreamEnded =>
        /\ collector.finished
        /\ collector.callbacks = 1
        /\ collector.kind = "passthrough" =>
              /\ Len(usageLog) = 1
              /\ usageLog[1].events = relay.pushed

\* an error-ended stream whose body was polled once more was finalized
C10_ErrorFinalized ==
    /\ relay.endCause = "upstream_error"
    /\ relay.pc = "done"
    /\ collector.callbacks = 1
    /\ Len(relay.pushed) > 0

\* the deadline the claim gives the current wait: the first-byte one while no
\* chunk has been received, the idle one afterwards (0: none)
WaitDeadline ==
    IF upstream.chunks = <<>> THEN relay.timeout_config.first_byte_timeout
    ELSE relay.timeout_config.idle_timeout

ChunkItems == [i \in 1..Len(upstream.chunks) |-> OkItem(upstream.chunks[i])]

C11_Step ==
    \* every wait starts at zero and never outlasts its deadline
    /\ (relay'.pc = "waiting" /\ relay.pc # "waiting") => relay'.waited = 0
    /\ (relay'.pc = "waiting" /\ WaitDeadline' > 0) => relay'.waited <= WaitDeadline'
    \* a timeout error names the deadline of the wait it ended
    /\ (items' # items /\ ~Last(items').ok /\ Last(items').error = "first_byte_timeout") =>
          /\ upstream.chunks = <<>>
          /\ items = <<>>
          /\ relay.timeout_config.first_byte_timeout > 0
          /\ relay.waited >= relay.timeout_config.first_byte_timeout
    /\ (items' # items /\ ~Last(items').ok /\ Last(items').error = "idle_timeout") =>
          /\ upstream.chunks # <<>>
          /\ items = ChunkItems
          /\ relay.timeout_config.idle_timeout > 0
          /\ relay.waited >= relay.timeout_config.idle_timeout

\* C11: in the relay the first-byte deadline bounds the wait for the first
\* chunk only and the idle deadline bounds the wait for each later chunk, each
\* wait starting anew: no wait outlasts its deadline, a first-byte-timeout
\* error is yielded only before any chunk was received, and an idle-timeout
\* error only after the chunks received so far have all been relayed.
C11_Deadlines == [][C11_Step]_vars

\* the idle deadline, shorter than the first-byte one, has ended the wait
\* that followed chunk 1
C11_Witness ==
    /\ Len(items) = 2
    /\ items[1].ok
    /\ Last(items).error = "idle_timeout"
    /\ relay.timeout_config.idle_timeout < relay.timeout_config.first_byte_timeout
    /\ relay.waited = relay.timeout_config.idle_timeout

\* an upstream silent past the first-byte deadline was aborted with the
\* first-byte-timeout error, the idle deadline being a different one
C11_FirstByteAbort ==
    /\ items = <<ErrItem("first_byte_timeout")>>
    /\ relay.timeout_config.idle_timeout # relay.timeout_config.first_byte_timeout
    /\ relay.timeout_config.idle_timeout > 0

TimeoutErrors == {i \in 1..Len(items) : ~items[i].ok /\ items[i].error \in {"first_byte_timeout", "idle_timeout"}}

\* C12: a streaming timeout of zero disables its own check and no other: with
\* first_byte_timeout = 0 no first-byte-timeout error is ever yielded, with
\* idle_timeout = 0 no idle-timeout error is ever yielded (so none at all with
\* both zero), while a non-zero first_byte_timeout bounds the wait for the
\* first chunk and a non-zero idle_timeout bounds every later wait whatever
\* the other value is.
C12_ZeroDisables ==
    LET tc == relay.timeout_config
    IN  /\ tc.first_byte_timeout = 0 =>
              \A i \in 1..Len(items) : items[i].error # "first_byte_timeout"
        /\ tc.idle_timeout = 0 =>
              \A i \in 1..Len(items) : items[i].error # "idle_timeout"
        /\ (tc.first_byte_timeout = 0 /\ tc.idle_timeout = 0) => TimeoutErrors = {}
        /\ (relay.pc = "waiting" /\ upstream.chunks = <<>> /\ tc.first_byte_timeout > 0) =>
              relay.waited <= tc.first_byte_timeout
        /\ (relay.pc = "waiting" /\ upstream.chunks # <<>> /\ tc.idle_timeout > 0) =>
              relay.waited <= tc.idle_timeout

\* with first_byte_timeout = 0 and the shortest idle deadline, the relay has
\* waited for the first chunk longer than any deadline that can be configured
C12_Witness ==
    /\ relay.timeout_config.first_byte_timeout = 0
    /\ relay.timeout_config.idle_timeout = 1
    /\ relay.pc = "waiting"
    /\ upstream.chunks = <<>>
    /\ relay.waited = WaitLimit

\* with first_byte_timeout = 0 the idle deadline has still ended a later wait
C12_IdleStillBounds ==
    /\ relay.timeout_config.first_byte_timeout = 0
    /\ items # <<>>
    /\ Last(items).error = "idle_timeout"

\* with idle_timeout = 0 the first-byte deadline has still ended the first wait
C12_FirstByteStillBounds ==
    /\ relay.timeout_config.idle_timeout = 0
    /\ items = <<ErrItem("first_byte_timeout")>>

\* with idle_timeout = 0 a later wait has lasted longer than any deadline
C12_IdleUnbounded ==
    /\ relay.timeout_config.idle_timeout = 0
    /\ relay.timeout_config.first_byte_timeout > 0
    /\ relay.pc = "waiting"
    /\ upstream.chunks # <<>>
    /\ relay.waited = WaitLimit

RelayErrors == {"upstream_error", "first_byte_timeout", "idle_timeout"}

FailedRecords == {i \in 1..Len(usageLog) : usageLog[i].status_code >= FirstErrorStatus}

\* C13: a stream that an upstream read error or a timeout has ended, and that
\* has run to its end, has given the client an error item as its last item and
\* has logged a failed-request usage record, one whose status marks failure.
C13_RelayErrorLogged ==
    (relay.endCause \in RelayErrors /\ relay.pc = "done"
        /\ collector.kind = "passthrough") =>
        /\ items # <<>>
        /\ ~Last(items).ok
        /\ FailedRecords # {}

\* the client's part of C13: the last item of an error-ended stream is the
\* error item, and the only usage record there can be is the collector's, with
\* the status the upstream had answered with
C13_ErrorSurfaced ==
    relay.endCause \in RelayErrors =>
        /\ items # <<>>
        /\ ~Last(items).ok
        /\ Last(items).error = relay.endCause
        /\ \A i \in 1..Len(usageLog) : usageLog[i].status_code = collector.status_code

\* an idle timeout ended a stream of a 200 response after events were pushed
C13_TimeoutAfterEvents ==
    /\ relay.endCause = "idle_timeout"
    /\ relay.pc = "done"
    /\ collector.status_code = 200
    /\ Len(usageLog) = 1
    /\ usageLog[1].events # <<>>

ErrorItems == {i \in 1..Len(items) : ~items[i].ok}

ErrorYielded == items # <<>> /\ ~Last(items).ok

C14_Step ==
    \* at most one error item, and nothing after it
    /\ Cardinality(ErrorItems') <= 1
    /\ ErrorItems' # {} => ErrorYielded'
    \* once the error item is out, no item is added, the upstream is not polled
    \* or read again, and the generator can only end
    /\ ErrorYielded =>
          /\ items' = items
          /\ relay'.pc \in {"yieldedErr", "done", "dropped"}
          /\ upstream'.pos = upstream.pos
          /\ upstream'.chunks = upstream.chunks
    \* the upstream stream is dropped with the generator
    /\ relay'.pc \in {"done", "dropped"} => ~upstream'.live

\* C14: after a streaming timeout or an upstream read error the relay has
\* yielded exactly one error item, which stays the last item: no upstream
\* chunk is relayed after it, the upstream is never polled again, and it is
\* dropped when the generator ends or is dropped.
C14_OneErrorThenEnd == [][C14_Step]_vars

\* an upstream that had more to send failed after a chunk was relayed; the
\* stream was polled again, ended, and the upstream was dropped unread
C14_Witness ==
    /\ ErrorYielded
    /\ Len(items) >= 2
    /\ relay.pc = "done"
    /\ upstream.pos < Len(upstream.wire)
    /\ ~upstream.live

(***************************************************************************)
(* log_usage_internal (response_processor.rs) and the cost resolution of   *)
(* section 4.6.  Multipliers and prices per million tokens are in tenths;  *)
(* a cost is in units of 10^-8, so that                                    *)
(*   tokens / 1,000,000 x price x multiplier                               *)
(* is the integer  tokens x price-in-tenths x multiplier-in-tenths.        *)
(***************************************************************************)
CoreIdle == GwIdle /\ ToIdle /\ ColIdle /\ RelIdle

PricingSettings ==
    [provider_multiplier : {<<>>, <<20>>},
     provider_source : {<<>>, <<"request">>, <<"response">>},
     default_multiplier : {10, 15},
     default_source : {"request", "response"}]

\* model_pricing as the tests seed it: input and output price per million
PricingTable ==
    [m \in {"resp-model", "req-model"} |->
        IF m = "resp-model" THEN [input |-> 10, output |-> 0]
        ELSE [input |-> 20, output |-> 0]]

ResponseModels == {"resp-model", "other-model"}

TokenUsages ==
    {[NoTokens EXCEPT !.input_tokens = i, !.output_tokens = o] :
        i \in {0, 1, 1000000}, o \in {0, 1000000}}

\* UsageLogger::resolve_pricing_config: the provider's values where it has
\* them, the app's defaults otherwise
resolve_pricing_config(settings) ==
    [multiplier |-> IF settings.provider_multiplier # <<>>
                    THEN settings.provider_multiplier[1]
                    ELSE settings.default_multiplier,
     pricing_model_source |-> IF settings.provider_source # <<>>
                              THEN settings.provider_source[1]
                              ELSE settings.default_source]

\* a choice of the priced model that does not look at the source
pricing_model_response(source, model, request_model) == model

\* the model that is priced
pricing_model(source, model, request_model) ==
    IF source = "request" THEN request_model ELSE model

\* the prices of a model, zero for a model the table does not know
prices(model) ==
    IF model \in DOMAIN PricingTable THEN PricingTable[model]
    ELSE [input |-> 0, output |-> 0]

\* the cost of a usage: the sum over the token types of tokens x price, times
\* the multiplier (the cache token types have no price in the table)
total_cost(usage, model, multiplier) ==
    (usage.input_tokens * prices(model).input
        + usage.output_tokens * prices(model).output) * multiplier

\* log_usage_internal resolves the pricing configuration of the provider
ResolvePricing ==
    /\ costRun.pc = "start"
    /\ costRun' = [costRun EXCEPT !.pc = "resolved",
                                  !.resolved = <<resolve_pricing_config(pricing)>>]
    /\ UNCHANGED <<pricing, requestLogs, notCost>>

\* log_with_calculation prices the usage and inserts the row; when the insert
\* fails log_usage_internal logs a warning and returns
LogWithCalculation ==
    /\ costRun.pc = "resolved"
    /\ LET res == costRun.resolved[1]
           pm == pricing_model(res.pricing_model_source, costRun.model,
                               costRun.request_model)
           row == [model |-> costRun.model, request_model |-> costRun.request_model,
                   pricing_model |-> pm, cost_multiplier |-> res.multiplier,
                   total_cost |-> total_cost(costRun.usage, pm, res.multiplier)]
       IN  \E stored \in BOOLEAN :
             /\ requestLogs' = IF stored THEN Append(requestLogs, row) ELSE requestLogs
             /\ costRun' = [costRun EXCEPT !.pc = IF stored THEN "logged" ELSE "warned"]
    /\ UNCHANGED <<pricing, notCost>>

InitCost ==
    /\ CoreIdle
    /\ PlIdle
    /\ SrvIdle
    /\ UriIdle
    /\ TgtIdle
    /\ pricing \in PricingSettings
    /\ costRun \in {NewCostRun(m, u) : m \in ResponseModels, u \in TokenUsages}
    /\ requestLogs = <<>>

NextCost ==
    \/ ResolvePricing
    \/ LogWithCalculation

SpecCost == InitCost /\ [][NextCost]_vars

\* the multiplier and the pricing-model source the claim gives a provider
ExpectedMultiplier ==
    IF pricing.provider_multiplier = <<>> THEN pricing.default_multiplier
    ELSE pricing.provider_multiplier[1]

ExpectedSource ==
    IF pricing.provider_source = <<>> THEN pricing.default_source
    ELSE pricing.provider_source[1]

\* C15: the row log_usage_internal writes carries the provider's multiplier
\* when it has one and the app default otherwise; its priced model is the
\* request model when the provider's source, or without one the app's, is
\* "request", and the response model otherwise; and its total cost is
\* tokens / 1,000,000 x price x multiplier.  1,000,000 input tokens with the
\* request model priced 2.0 and provider multiplier 2 over app default 1.5
\* cost 4; without provider values, the response model priced 1.0 and app
\* default 1.5, they cost 1.5.
C15_CostResolution ==
    \A i \in 1..Len(requestLogs) :
        LET row == requestLogs[i]
            pm == IF ExpectedSource = "request" THEN costRun.request_model
                  ELSE costRun.model
            price == IF pm = "req-model" THEN 20 ELSE IF pm = "resp-model" THEN 10 ELSE 0
        IN  /\ row.cost_multiplier = ExpectedMultiplier
            /\ row.pricing_model = pm
            /\ row.total_cost = costRun.usage.input_tokens * price * ExpectedMultiplier
            /\ (costRun.usage.input_tokens = 1000000 /\ pm = "req-model"
                    /\ pricing.provider_multiplier = <<20>>
                    /\ pricing.default_multiplier = 15) => row.total_cost = 400000000
            /\ (costRun.usage.input_tokens = 1000000 /\ pm = "resp-model"
                    /\ pricing.provider_multiplier = <<>>
                    /\ pricing.default_multiplier = 15) => row.total_cost = 150000000

\* the first example of the claim has been logged: provider multiplier 2 and
\* source "request" over app defaults 1.5 and "response"
C15_Witness ==
    /\ pricing = [provider_multiplier |-> <<20>>, provider_source |-> <<"request">>,
                  default_multiplier |-> 15, default_source |-> "response"]
    /\ costRun.model = "resp-model"
    /\ costRun.usage.input_tokens = 1000000
    /\ Len(requestLogs) = 1
    /\ requestLogs[1].total_cost = 400000000

\* the second example of the claim has been logged
C15_Fallback ==
    /\ pricing = [provider_multiplier |-> <<>>, provider_source |-> <<>>,
                  default_multiplier |-> 15, default_source |-> "response"]
    /\ costRun.model = "resp-model"
    /\ costRun.usage.input_tokens = 1000000
    /\ Len(requestLogs) = 1
    /\ requestLogs[1].total_cost = 150000000

(***************************************************************************)
(* The handler after forward_with_retry (SpecPipeline): the forward error  *)
(* is logged inline and returned; a buffered response is read, billed by a *)
(* spawned task and returned as it came; a streamed response is relayed    *)
(* and billed when the stream ends.  Every persistence step may fail.      *)
(***************************************************************************)

\* ProxyError values forward_with_retry can end with
ForwardErrors == {"NoAvailableProvider", "ForwardFailed"}

\* (parser_config.response_parser)(json): None, or a usage with or without a model
ParserResults == {<<>>, <<[model |-> <<>>]>>, <<[model |-> <<"usage-model">>]>>}

\* json_value.get("model").and_then(Value::as_str)
JsonModels == {<<>>, <<"json-model">>}

\* the upstream body: not JSON, or JSON with what the parser and the "model" key give
BufferedBodies ==
    {NoBody} \cup
    {[json |-> TRUE, parser_usage |-> u, json_model |-> m] :
        u \in ParserResults, m \in JsonModels}

\* state.thread_memory is Some, and which texts the extractors find
Memories == [enabled : BOOLEAN, request_text : BOOLEAN, response_text : BOOLEAN]

\* the chunks of a streamed upstream body
StreamChunks == <<"c1", "c2">>

\* model_extractor(&events, &request_model)
StreamModels == {"req-model", "event-model"}

ForwardErrorInputs ==
    {[NewInput("forward_error") EXCEPT !.error = e, !.is_stream = s] :
        e \in ForwardErrors, s \in BOOLEAN}

BufferedInputs ==
    {[NewInput("buffered") EXCEPT !.status = st, !.read_ok = FALSE] :
        st \in UpstreamStatuses} \cup
    {[NewInput("buffered") EXCEPT !.status = st, !.body = b, !.memory = m,
                                  !.is_stream = s] :
        st \in UpstreamStatuses, b \in BufferedBodies, m \in Memories, s \in BOOLEAN}

StreamInputs ==
    {[NewInput("stream") EXCEPT !.status = st, !.stream_usage = u,
                                !.stream_model = rm, !.memory = m] :
        st \in UpstreamStatuses, u \in BOOLEAN, rm \in StreamModels, m \in Memories}

ErrResponse(error) ==
    [ok |-> FALSE, error |-> error, status |-> 0, headers |-> "none",
     body |-> [stream |-> FALSE, bytes |-> NoBody]]

OkResponse(status, stream, bytes) ==
    [ok |-> TRUE, error |-> "none", status |-> status, headers |-> "upstream",
     body |-> [stream |-> stream, bytes |-> bytes]]

\* one piece of persistence work: an error row, a usage row or a memory write
NewTask(kind, input, model, parsed, is_streaming, state) ==
    [kind |-> kind, status_code |-> input.status, model |-> model,
     request_model |-> input.request_model, parsed |-> parsed,
     is_streaming |-> is_streaming,
     state |-> state]

\* the billed model with the response's "model" preferred to the parser's
billed_model_json_first(input) ==
    IF input.body.json
    THEN IF input.body.json_model # <<>>
         THEN input.body.json_model[1]
         ELSE IF input.body.parser_usage # <<>> /\ input.body.parser_usage[1].model # <<>>
              THEN input.body.parser_usage[1].model[1]
              ELSE input.request_model
    ELSE input.request_model

\* the model handle_non_streaming passes to spawn_log_usage
billed_model(input) ==
    IF input.body.json
    THEN IF input.body.parser_usage # <<>>
         THEN IF input.body.parser_usage[1].model # <<>>
              THEN input.body.parser_usage[1].model[1]
              ELSE IF input.body.json_model # <<>>
                   THEN input.body.json_model[1]
                   ELSE input.request_model
         ELSE IF input.body.json_model # <<>>
              THEN input.body.json_model[1]
              ELSE input.request_model
    ELSE input.request_model

spawn_log_usage(input, model, parsed, is_streaming) ==
    <<NewTask("usage", input, model, parsed, is_streaming, "pending")>>

\* the memory write is spawned for a success status, a configured memory and
\* at least one extracted text
spawn_thread_memory_write(input, response_text) ==
    IF input.status >= FirstErrorStatus THEN <<>>
    ELSE IF ~input.memory.enabled THEN <<>>
    ELSE IF ~input.memory.request_text /\ ~response_text THEN <<>>
    ELSE <<NewTask("memory", input, input.request_model, FALSE, FALSE, "pending")>>

\* log_forward_error whose failure replaces the error the client gets
HandleForwardErrorSurfacing ==
    /\ pipe.pc = "start"
    /\ pipe.input.outcome = "forward_error"
    /\ \E logged \in BOOLEAN :
          /\ tasks' = Append(tasks, NewTask("error", pipe.input, pipe.input.request_model,
                                 FALSE, pipe.input.is_stream,
                                 IF logged THEN "stored" ELSE "failed"))
          /\ warnings' = warnings + (IF logged THEN 0 ELSE 1)
          /\ pipe' = [pipe EXCEPT !.pc = "done",
                         !.response = <<ErrResponse(IF logged THEN pipe.input.error
                                                    ELSE "DatabaseError")>>]
    /\ UNCHANGED notPl

\* forward_with_retry failed: the error row is written inline, a failure to
\* write it is a warning, and the forward error is returned
HandleForwardError ==
    /\ pipe.pc = "start"
    /\ pipe.input.outcome = "forward_error"
    /\ \E logged \in BOOLEAN :
          /\ tasks' = Append(tasks, NewTask("error", pipe.input, pipe.input.request_model,
                                 FALSE, pipe.input.is_stream,
                                 IF logged THEN "stored" ELSE "failed"))
          /\ warnings' = warnings + (IF logged THEN 0 ELSE 1)
    /\ pipe' = [pipe EXCEPT !.pc = "done", !.response = <<ErrResponse(pipe.input.error)>>]
    /\ UNCHANGED notPl

\* a buffered path that logs nothing when the parser finds no usage
HandleNonStreamingSkipping ==
    /\ pipe.pc = "start"
    /\ pipe.input.outcome = "buffered"
    /\ IF ~pipe.input.read_ok
       THEN /\ pipe' = [pipe EXCEPT !.pc = "done",
                           !.response = <<ErrResponse("ForwardFailed")>>]
            /\ UNCHANGED tasks
       ELSE /\ tasks' = tasks
                    \o (IF pipe.input.body.json /\ pipe.input.body.parser_usage = <<>>
                        THEN <<>>
                        ELSE spawn_log_usage(pipe.input, billed_model(pipe.input),
                                 pipe.input.body.json /\ pipe.input.body.parser_usage # <<>>,
                                 FALSE))
                    \o spawn_thread_memory_write(pipe.input,
                           pipe.input.body.json /\ pipe.input.memory.response_text)
            /\ pipe' = [pipe EXCEPT !.pc = "done",
                           !.response = <<OkResponse(pipe.input.status, FALSE,
                                                     pipe.input.body)>>]
    /\ UNCHANGED <<warnings, notPl>>

\* handle_non_streaming: a body that cannot be read is ForwardFailed; else one
\* usage task, perhaps a memory task, and the upstream's status, headers, bytes
HandleNonStreaming ==
    /\ pipe.pc = "start"
    /\ pipe.input.outcome = "buffered"
    /\ IF ~pipe.input.read_ok
       THEN /\ pipe' = [pipe EXCEPT !.pc = "done",
                           !.response = <<ErrResponse("ForwardFailed")>>]
            /\ UNCHANGED tasks
       ELSE /\ tasks' = tasks
                    \o spawn_log_usage(pipe.input, billed_model(pipe.input),
                           pipe.input.body.json /\ pipe.input.body.parser_usage # <<>>,
                           FALSE)
                    \o spawn_thread_memory_write(pipe.input,
                           pipe.input.body.json /\ pipe.input.memory.response_text)
            /\ pipe' = [pipe EXCEPT !.pc = "done",
                           !.response = <<OkResponse(pipe.input.status, FALSE,
                                                     pipe.input.body)>>]
    /\ UNCHANGED <<warnings, notPl>>

\* handle_streaming: the response is returned with the relay as its body
HandleStreaming ==
    /\ pipe.pc = "start"
    /\ pipe.input.outcome = "stream"
    /\ pipe' = [pipe EXCEPT !.pc = "streaming",
                   !.response = <<OkResponse(pipe.input.status, TRUE, NoBody)>>]
    /\ UNCHANGED <<tasks, warnings, notPl>>

\* the relay hands the next upstream chunk to the client
StreamItem ==
    /\ pipe.pc = "streaming"
    /\ Len(pipe.items) < Len(StreamChunks)
    /\ pipe' = [pipe EXCEPT !.items = Append(@, StreamChunks[Len(pipe.items) + 1])]
    /\ UNCHANGED <<tasks, warnings, notPl>>

\* the stream ends: the collector's callback spawns the usage task and,
\* for a success status, the memory task
StreamEnd ==
    /\ pipe.pc = "streaming"
    /\ Len(pipe.items) = Len(StreamChunks)
    /\ tasks' = tasks
            \o spawn_log_usage(pipe.input, pipe.input.stream_model, pipe.input.stream_usage,
                               TRUE)
            \o spawn_thread_memory_write(pipe.input, pipe.input.memory.response_text)
    /\ pipe' = [pipe EXCEPT !.pc = "done"]
    /\ UNCHANGED <<warnings, notPl>>

\* a spawned task runs: log_with_calculation or persist_exchange returns Ok,
\* or returns Err and the error is logged
RunTask(i) ==
    /\ tasks[i].state = "pending"
    /\ \E ok \in BOOLEAN :
          /\ tasks' = [tasks EXCEPT ![i].state = IF ok THEN "stored" ELSE "failed"]
          /\ warnings' = warnings + (IF ok THEN 0 ELSE 1)
    /\ UNCHANGED <<pipe, notPl>>

InitPipeline ==
    /\ CoreIdle
    /\ CostIdle
    /\ SrvIdle
    /\ UriIdle
    /\ TgtIdle
    /\ pipe \in {NewPipe(i) : i \in ForwardErrorInputs \cup BufferedInputs \cup StreamInputs}
    /\ tasks = <<>>
    /\ warnings = 0

NextPipeline ==
    \/ HandleForwardError
    \/ HandleNonStreaming
    \/ HandleStreaming
    \/ StreamItem
    \/ StreamEnd
    \/ \E i \in DOMAIN tasks : RunTask(i)

SpecPipeline == InitPipeline /\ [][NextPipeline]_vars

\* what the client is owed, from the forward result alone
ExpectedResponse(input) ==
    CASE input.outcome = "forward_error" -> ErrResponse(input.error)
      [] input.outcome = "buffered" /\ ~input.read_ok -> ErrResponse("ForwardFailed")
      [] input.outcome = "buffered" /\ input.read_ok ->
            OkResponse(input.status, FALSE, input.body)
      [] input.outcome = "stream" -> OkResponse(input.status, TRUE, NoBody)

FailedTasks == {i \in DOMAIN tasks : tasks[i].state = "failed"}

\* C16: whatever log_with_calculation, log_error_with_context and
\* persist_exchange return, the response (status, headers, body, error) and
\* the stream items are those the forward result alone determines, and each
\* persistence failure is one logged warning and nothing else
C16_PersistenceIsolated ==
    /\ pipe.response # <<>> => pipe.response[1] = ExpectedResponse(pipe.input)
    /\ pipe.items = SubSeq(StreamChunks, 1, Len(pipe.items))
    /\ pipe.pc = "done" /\ pipe.input.outcome = "stream" => pipe.items = StreamChunks
    /\ warnings = Cardinality(FailedTasks)

\* a usage write and a memory write both failed and the client has the
\* upstream's response as it came
C16_Witness ==
    /\ pipe.pc = "done"
    /\ pipe.input.outcome = "buffered"
    /\ pipe.response = <<OkResponse(200, FALSE, pipe.input.body)>>
    /\ \E i, j \in FailedTasks : tasks[i].kind = "usage" /\ tasks[j].kind = "memory"

\* the error row of a failed forward could not be written and the client
\* still gets the forward error
C16_ErrorRowLost ==
    /\ pipe.input.outcome = "forward_error"
    /\ pipe.response = <<ErrResponse(pipe.input.error)>>
    /\ \E i \in FailedTasks : tasks[i].kind = "error"

(***************************************************************************)
(* The gateway server's lifecycle (SpecServer): start() and stop() are     *)
(* sequences of steps separated by lock acquisitions and awaits, callers   *)
(* may overlap, and each server task accepts requests until its shutdown   *)
(* channel resolves, drains its in-flight requests and then clears the     *)
(* status.                                                                 *)
(***************************************************************************)

\* the seconds stop() waits for the server task
GracePeriod == 5

\* a server task with its listener, the sender half of its shutdown channel
\* and its in-flight requests
NewTaskState ==
    [state |-> "bound", sender |-> "held", listener |-> TRUE, inflight |-> 0]

\* the shutdown receiver has resolved: a value was sent or the sender dropped
ShutdownResolved(t) == srvTasks[t].sender \in {"sent", "dropped"}

\* the JoinHandle of the task is ready
TaskFinished(t) == srvTasks[t].state = "done"

\* the port is taken by a listener of this server
PortTaken == server.port_fixed /\ \E t \in DOMAIN srvTasks : srvTasks[t].listener

Return(c, op, result) ==
    [calls EXCEPT ![c] = [NewCall EXCEPT !.op = op, !.pc = "returned", !.result = result]]

CanCall(c) == calls[c].pc \in {"idle", "returned"}

DropSender(tasks_, t) ==
    IF t = 0 THEN tasks_
    ELSE [tasks_ EXCEPT ![t].sender = IF @ = "held" THEN "dropped" ELSE @]

\* start() without the running check
StartCheckAlways(c) ==
    /\ CanCall(c)
    /\ IF ~server.addr_valid
       THEN calls' = Return(c, "start", "BindFailed")
       ELSE calls' = [calls EXCEPT ![c] = [NewCall EXCEPT !.op = "start", !.pc = "bind"]]
    /\ UNCHANGED <<server, srvTasks, notSrv>>

\* start(): the running check and the parse of the listen address
StartCheck(c) ==
    /\ CanCall(c)
    /\ IF server.shutdown_tx # 0
       THEN calls' = Return(c, "start", "AlreadyRunning")
       ELSE IF ~server.addr_valid
       THEN calls' = Return(c, "start", "BindFailed")
       ELSE calls' = [calls EXCEPT ![c] = [NewCall EXCEPT !.op = "start", !.pc = "bind"]]
    /\ UNCHANGED <<server, srvTasks, notSrv>>

\* start() with the status written before the listener is bound
StartBindMarked(c) ==
    /\ calls[c].pc = "bind"
    /\ \E ok \in BOOLEAN :
          IF ok /\ ~PortTaken
          THEN /\ Len(srvTasks) < MaxStarts
               /\ srvTasks' = Append(srvTasks, NewTaskState)
               /\ calls' = [calls EXCEPT ![c].pc = "save_tx", ![c].task = Len(srvTasks) + 1]
          ELSE /\ calls' = Return(c, "start", "BindFailed")
               /\ UNCHANGED srvTasks
    /\ server' = [server EXCEPT !.running = TRUE]
    /\ UNCHANGED notSrv

\* start(): TcpListener::bind; on failure the channel is dropped with the call
StartBind(c) ==
    /\ calls[c].pc = "bind"
    /\ \E ok \in BOOLEAN :
          IF ok /\ ~PortTaken
          THEN /\ Len(srvTasks) < MaxStarts
               /\ srvTasks' = Append(srvTasks, NewTaskState)
               /\ calls' = [calls EXCEPT ![c].pc = "save_tx", ![c].task = Len(srvTasks) + 1]
          ELSE /\ calls' = Return(c, "start", "BindFailed")
               /\ UNCHANGED srvTasks
    /\ UNCHANGED <<server, notSrv>>

\* start(): *self.shutdown_tx.write().await = Some(shutdown_tx)
StartSaveTx(c) ==
    /\ calls[c].pc = "save_tx"
    /\ srvTasks' = DropSender(srvTasks, server.shutdown_tx)
    /\ server' = [server EXCEPT !.shutdown_tx = calls[c].task]
    /\ calls' = [calls EXCEPT ![c].pc = "status"]
    /\ UNCHANGED notSrv

\* start(): status.running = true
StartStatus(c) ==
    /\ calls[c].pc = "status"
    /\ server' = [server EXCEPT !.running = TRUE]
    /\ calls' = [calls EXCEPT ![c].pc = "time"]
    /\ UNCHANGED <<srvTasks, notSrv>>

\* start(): *self.state.start_time.write().await = Some(Instant::now())
StartTime(c) ==
    /\ calls[c].pc = "time"
    /\ server' = [server EXCEPT !.start_time = calls[c].task]
    /\ calls' = [calls EXCEPT ![c].pc = "spawn"]
    /\ UNCHANGED <<srvTasks, notSrv>>

\* start(): tokio::spawn of the serving task
StartSpawn(c) ==
    /\ calls[c].pc = "spawn"
    /\ srvTasks' = [srvTasks EXCEPT ![calls[c].task].state = "serving"]
    /\ calls' = [calls EXCEPT ![c].pc = "save_handle"]
    /\ UNCHANGED <<server, notSrv>>

\* start(): *self.server_handle.write().await = Some(handle), then Ok
StartSaveHandle(c) ==
    /\ calls[c].pc = "save_handle"
    /\ server' = [server EXCEPT !.server_handle = calls[c].task]
    /\ calls' = Return(c, "start", "Ok")
    /\ UNCHANGED <<srvTasks, notSrv>>

\* stop(): take the shutdown handle and send on it, or NotRunning
StopTake(c) ==
    /\ CanCall(c)
    /\ IF server.shutdown_tx # 0
       THEN /\ srvTasks' = [srvTasks EXCEPT ![server.shutdown_tx].sender =
                                                IF @ = "held" THEN "sent" ELSE @]
            /\ server' = [server EXCEPT !.shutdown_tx = 0]
            /\ calls' = [calls EXCEPT ![c] = [NewCall EXCEPT !.op = "stop", !.pc = "take_handle"]]
       ELSE /\ calls' = Return(c, "stop", "NotRunning")
            /\ UNCHANGED <<server, srvTasks>>
    /\ UNCHANGED notSrv

\* stop(): take the task handle; with none stored the call is over
StopTakeHandle(c) ==
    /\ calls[c].pc = "take_handle"
    /\ server' = [server EXCEPT !.server_handle = 0]
    /\ IF server.server_handle # 0
       THEN calls' = [calls EXCEPT ![c].pc = "wait", ![c].task = server.server_handle]
       ELSE calls' = Return(c, "stop", "Ok")
    /\ UNCHANGED <<srvTasks, notSrv>>

\* stop(): the seconds of the timeout pass while the task is not over
StopTick(c) ==
    /\ calls[c].pc = "wait"
    /\ ~TaskFinished(calls[c].task)
    /\ calls[c].waited < GracePeriod
    /\ calls' = [calls EXCEPT ![c].waited = GracePeriod]
    /\ UNCHANGED <<server, srvTasks, notSrv>>

\* stop(): the task ended within the timeout
StopJoined(c) ==
    /\ calls[c].pc = "wait"
    /\ TaskFinished(calls[c].task)
    /\ calls' = [Return(c, "stop", "Ok") EXCEPT ![c].task = calls[c].task]
    /\ UNCHANGED <<server, srvTasks, notSrv>>

\* stop(): the timeout expires, the handle is dropped and the task goes on
StopTimeout(c) ==
    /\ calls[c].pc = "wait"
    /\ ~TaskFinished(calls[c].task)
    /\ calls[c].waited = GracePeriod
    /\ calls' = [Return(c, "stop", "StopTimeout") EXCEPT ![c].task = calls[c].task]
    /\ UNCHANGED <<server, srvTasks, notSrv>>

\* the requests in flight at the first n tasks
RECURSIVE Inflight(_)
Inflight(n) == IF n = 0 THEN 0 ELSE srvTasks[n].inflight + Inflight(n - 1)

\* a client's request is accepted by a serving task
RequestArrive(t) ==
    /\ srvTasks[t].state = "serving"
    /\ ~ShutdownResolved(t)
    /\ Inflight(Len(srvTasks)) < MaxInflight
    /\ srvTasks' = [srvTasks EXCEPT ![t].inflight = @ + 1]
    /\ UNCHANGED <<server, calls, notSrv>>

\* an in-flight request completes
RequestDone(t) ==
    /\ srvTasks[t].state \in {"serving", "draining"}
    /\ srvTasks[t].inflight > 0
    /\ srvTasks' = [srvTasks EXCEPT ![t].inflight = @ - 1]
    /\ UNCHANGED <<server, calls, notSrv>>

\* with_graceful_shutdown: the receiver resolved, the task stops accepting
TaskShutdown(t) ==
    /\ srvTasks[t].state = "serving"
    /\ ShutdownResolved(t)
    /\ srvTasks' = [srvTasks EXCEPT ![t].state = "draining", ![t].listener = FALSE]
    /\ UNCHANGED <<server, calls, notSrv>>

\* axum::serve returns once no request is in flight; status.running = false
TaskClearRunning(t) ==
    /\ srvTasks[t].state = "draining"
    /\ srvTasks[t].inflight = 0
    /\ server' = [server EXCEPT !.running = FALSE]
    /\ srvTasks' = [srvTasks EXCEPT ![t].state = "clearing"]
    /\ UNCHANGED <<calls, notSrv>>

\* the task's last step: *state.start_time.write().await = None; the receiver
\* of the shutdown channel goes with the task
TaskClearStartTime(t) ==
    /\ srvTasks[t].state = "clearing"
    /\ server' = [server EXCEPT !.start_time = 0]
    /\ srvTasks' = [srvTasks EXCEPT ![t].state = "done", ![t].sender = "closed"]
    /\ UNCHANGED <<calls, notSrv>>

InitServer ==
    /\ CoreIdle
    /\ CostIdle
    /\ PlIdle
    /\ UriIdle
    /\ TgtIdle
    /\ server \in {NewServer(v, f) : v, f \in BOOLEAN}
    /\ srvTasks = <<>>
    /\ calls = [c \in Callers |-> NewCall]

NextServer ==
    \/ \E c \in Callers :
          \/ StartCheck(c)
          \/ StartBind(c)
          \/ StartSaveTx(c)
          \/ StartStatus(c)
          \/ StartTime(c)
          \/ StartSpawn(c)
          \/ StartSaveHandle(c)
          \/ StopTake(c)
          \/ StopTakeHandle(c)
          \/ StopTick(c)
          \/ StopJoined(c)
          \/ StopTimeout(c)
    \/ \E t \in DOMAIN srvTasks :
          \/ RequestArrive(t)
          \/ RequestDone(t)
          \/ TaskShutdown(t)
          \/ TaskClearRunning(t)
          \/ TaskClearStartTime(t)

SpecServer == InitServer /\ [][NextServer]_vars

SrvTypeOK ==
    /\ server.shutdown_tx \in 0..MaxStarts
    /\ server.server_handle \in 0..MaxStarts
    /\ \A c \in Callers : calls[c].waited \in 0..GracePeriod

\* c is the only caller that has ever called start() or stop()
OnlyCaller(c) == \A d \in Callers \ {c} : calls[d].pc = "idle"

\* c's call begins in this step
Begins(c, op) == CanCall(c) /\ calls'[c] # calls[c] /\ calls'[c].op = op

LastResult(c, op, result) ==
    calls[c].pc = "returned" /\ calls[c].op = op /\ calls[c].result = result

\* a server is running: start() stored its shutdown handle and no stop() took it
Running == server.shutdown_tx # 0

C17_Sequential ==
    \A c \in Callers :
        OnlyCaller(c) =>
            /\ LastResult(c, "start", "Ok") =>
                  /\ Running
                  /\ srvTasks[server.shutdown_tx].state = "serving"
                  /\ server.server_handle = server.shutdown_tx
            /\ LastResult(c, "start", "AlreadyRunning") => Running
            /\ calls[c].pc = "returned" /\ calls[c].op = "stop" => ~Running

C17_Step ==
    \A c \in Callers :
        /\ Begins(c, "start") /\ Running =>
              /\ calls'[c].pc = "returned"
              /\ calls'[c].result = "AlreadyRunning"
              /\ server' = server
              /\ srvTasks' = srvTasks
        /\ Begins(c, "stop") /\ ~Running =>
              /\ calls'[c].pc = "returned"
              /\ calls'[c].result = "NotRunning"
              /\ server' = server
              /\ srvTasks' = srvTasks
        /\ OnlyCaller(c) /\ LastResult(c, "stop", "Ok") =>
              /\ Begins(c, "stop") => calls'[c].result = "NotRunning"
              /\ Begins(c, "start") => calls'[c].result # "AlreadyRunning"

\* C17: start() while the shutdown handle is stored returns AlreadyRunning and
\* stop() while none is stored returns NotRunning, both leaving the server and
\* its tasks as they were; for one caller at a time the handle is stored
\* exactly from a successful start() to the next stop(), so after a successful
\* start()/stop() pair stop() returns NotRunning and start() is accepted
C17_Lifecycle == [][C17_Step]_vars /\ []C17_Sequential

\* start() was refused on a serving server, which is still serving
C17_Witness ==
    \E c \in Callers :
        /\ LastResult(c, "start", "AlreadyRunning")
        /\ Running
        /\ srvTasks[server.shutdown_tx].state = "serving"
        /\ server.server_handle = server.shutdown_tx
        /\ server.running

\* stop() was refused after a successful start()/stop() pair
C17_StopRefused ==
    \E c \in Callers :
        /\ OnlyCaller(c)
        /\ LastResult(c, "stop", "NotRunning")
        /\ Len(srvTasks) = 1
        /\ srvTasks[1].state = "done"

\* a second start() was accepted after a successful start()/stop() pair
C17_Restarted ==
    \E c \in Callers :
        /\ OnlyCaller(c)
        /\ LastResult(c, "start", "Ok")
        /\ Len(srvTasks) = 2
        /\ srvTasks[1].state = "done"
        /\ srvTasks[2].state = "serving"

\* the task whose handle c's stop() waited on
StoppedTask(c) == calls[c].task

StopReturned(c) ==
    /\ calls[c].pc = "returned"
    /\ calls[c].op = "stop"
    /\ calls[c].result \in {"Ok", "StopTimeout"}
    /\ StoppedTask(c) # 0

\* C18: once stop() has returned Ok or StopTimeout, the server task it
\* waited on is over: it accepts nothing and serves no request
C18_StopEndsTask ==
    \A c \in Callers : StopReturned(c) => TaskFinished(StoppedTask(c))

\* the part of C18 that holds: stop() waits no longer than the grace period,
\* returns Ok only when the task is over, and a task whose shutdown was sent
\* accepts no further request
C18_GraceBounded ==
    /\ \A c \in Callers :
          /\ calls[c].waited <= GracePeriod
          /\ LastResult(c, "stop", "Ok") /\ StoppedTask(c) # 0 =>
                TaskFinished(StoppedTask(c))
    /\ [][\A t \in DOMAIN srvTasks :
             srvTasks[t].sender = "sent" => srvTasks'[t].inflight <= srvTasks[t].inflight]_vars

\* stop() returned StopTimeout and the task is still serving a request
C18_TimeoutLeavesTask ==
    \E c \in Callers :
        /\ LastResult(c, "stop", "StopTimeout")
        /\ srvTasks[StoppedTask(c)].state = "draining"
        /\ srvTasks[StoppedTask(c)].inflight > 0

\* the candidates for the billed model, in the order of preference
ModelCandidates(input) ==
    (IF input.body.json /\ input.body.parser_usage # <<>>
     THEN input.body.parser_usage[1].model ELSE <<>>)
    \o (IF input.body.json THEN input.body.json_model ELSE <<>>)
    \o <<input.request_model>>

UsageTasks == {i \in DOMAIN tasks : tasks[i].kind = "usage"}

\* C19: on the buffered path the usage task carries the first of: the model
\* the usage parser extracted, the response JSON's top-level "model", the
\* request's model; a body that is not JSON is billed to the request's model
C19_BilledModel ==
    pipe.input.outcome = "buffered" =>
        \A i \in UsageTasks :
            /\ tasks[i].model = Head(ModelCandidates(pipe.input))
            /\ ~pipe.input.body.json => tasks[i].model = pipe.input.request_model

\* the parser found usage without a model, the JSON names one, and it is billed
C19_Witness ==
    /\ pipe.input.outcome = "buffered"
    /\ pipe.input.body.parser_usage = <<[model |-> <<>>]>>
    /\ pipe.input.body.json_model = <<"json-model">>
    /\ \E i \in UsageTasks : tasks[i].model = "json-model"

\* the parser's model wins over the JSON's
C19_ParserFirst ==
    /\ pipe.input.outcome = "buffered"
    /\ pipe.input.body.json_model = <<"json-model">>
    /\ \E i \in UsageTasks : tasks[i].model = "usage-model"

\* JSON without usage and without "model" is billed to the request's model
C19_RequestLast ==
    /\ pipe.input.outcome = "buffered"
    /\ pipe.input.body.json
    /\ \E i \in UsageTasks : tasks[i].model = "req-model"

\* a body that is not JSON is billed to the request's model
C19_NotJson ==
    /\ pipe.input.outcome = "buffered"
    /\ ~pipe.input.body.json
    /\ \E i \in UsageTasks : tasks[i].model = "req-model"

\* the bytes the relay has received so far, chunk after chunk
RECURSIVE Concat(_)
Concat(chunks) ==
    IF chunks = <<>> THEN <<>> ELSE Head(chunks) \o Concat(Tail(chunks))

\* the values of the complete events of a byte sequence read as one text
ReferenceEvents(bytes) == drain(from_utf8_lossy(bytes)).events

\* some chunk boundary falls between the two bytes of a character
SplitCharacter ==
    \E i \in 1..Len(upstream.chunks) :
        upstream.chunks[i] # <<>> /\ upstream.chunks[i][Len(upstream.chunks[i])] = "u1"

\* C20: the values fed to the collector are the JSON data payloads of the
\* complete events of the concatenated upstream bytes, in order, whatever
\* the chunks the upstream delivered them in
C20_SplitIndependent ==
    relay.pushed = ReferenceEvents(Concat(upstream.chunks))

\* the part of C20 that holds: as long as no chunk boundary falls inside a
\* character, the values are those of the concatenated bytes
C20_WholeCharacters ==
    ~SplitCharacter => relay.pushed = ReferenceEvents(Concat(upstream.chunks))

\* an event and its delimiter straddled chunk boundaries and its value was fed
C20_Straddled ==
    /\ upstream.wire = <<"data", "e1", "nl", "data", "e2", "nl", "nl">>
    /\ Len(upstream.chunks) = 4
    /\ relay.pushed = <<"e1", "e2">>

\* unparsable payloads and [DONE] were skipped and the relay went on
C20_Skipped ==
    /\ upstream.wire \in {<<"data", "junk", "nl", "nl", "data", "e1", "nl", "nl">>,
                          <<"data", "e2", "nl", "nl", "data", "DONE", "nl", "nl">>}
    /\ upstream.pos = Len(upstream.wire)
    /\ Len(relay.pushed) = 1
    /\ \A i \in 1..Len(items) : items[i].ok

\* a character split between two chunks reached the collector as two U+FFFD
C20_CharacterLost ==
    /\ SplitCharacter
    /\ relay.pushed = <<"str_bad_bad">>
    /\ ReferenceEvents(Concat(upstream.chunks)) = <<"str_uc">>

\* the chunks yielded to the client, in order
YieldedChunks == SelectSeq(items, LAMBDA it : it.ok)

\* C21: the chunks yielded to the client are the chunks received from the
\* upstream, byte for byte, in order and once each, with at most an error
\* item after them; the received chunks are the upstream bytes cut in pieces,
\* and a stream ended by upstream EOF has yielded all of the upstream bytes
C21_PassThrough ==
    /\ YieldedChunks = ChunkItems
    /\ \A i \in 1..Len(ChunkItems) : items[i] = ChunkItems[i]
    /\ Len(items) <= Len(ChunkItems) + 1
    /\ Concat(upstream.chunks) = SubSeq(upstream.wire, 1, upstream.pos)
    /\ relay.endCause = "eof" =>
          /\ items = ChunkItems
          /\ Concat(upstream.chunks) = upstream.wire

\* a stream ended by EOF whose parsing skipped one payload and changed
\* nothing in the four chunks yielded
C21_Witness ==
    /\ relay.endCause = "eof"
    /\ upstream.wire = <<"data", "junk", "nl", "nl", "data", "e1", "nl", "nl">>
    /\ relay.pushed = <<"e1">>
    /\ Len(items) = 4
    /\ Concat([i \in 1..4 |-> items[i].bytes]) = upstream.wire

\* the bytes of a split character were yielded as they came although the
\* parser saw them as U+FFFD
C21_BytesKept ==
    /\ relay.endCause = "eof"
    /\ SplitCharacter
    /\ relay.pushed = <<"str_bad_bad">>
    /\ \E i \in 1..Len(items) : items[i].bytes = <<"u1">>

(***************************************************************************)
(* RequestContext::with_model_from_uri (SpecUri).  A URI is a sequence of  *)
(* pieces of text: "/" is the slash, ":" the colon, "?" the question mark; *)
(* "v1beta", "models", "name", "action" and "alt" are texts that hold none *)
(* of the three.                                                           *)
(***************************************************************************)

\* the texts between two slashes of a request URI
UriSegments ==
    { <<"v1beta">>, <<"models">>, <<"name">>, <<"name", ":", "action">>,
      <<"name", ":", "action", "?", "alt">>, <<>> }

\* path_and_query of the requests: up to MaxSegments segments, each after a slash
RECURSIVE UrisOf(_)
UrisOf(n) ==
    IF n = 0 THEN {<<>>}
    ELSE LET shorter == UrisOf(n - 1)
         IN  shorter \cup {u \o <<"/">> \o seg : u \in shorter, seg \in UriSegments}

Uris == UrisOf(MaxSegments) \ {<<>>}

\* str::split('/'): the texts between the slashes, the empty ones included
RECURSIVE split_slash(_)
split_slash(text) ==
    LET hits == {i \in 1..Len(text) : text[i] = "/"}
    IN  IF hits = {} THEN <<text>>
        ELSE LET i == CHOOSE k \in hits : \A j \in hits : k <= j
             IN  <<SubSeq(text, 1, i - 1)>> \o split_slash(SubSeq(text, i + 1, Len(text)))

\* str::starts_with("models/")
starts_with_models(s) == Len(s) >= 2 /\ s[1] = "models" /\ s[2] = "/"

\* Iterator::find: the first segment the predicate accepts, if any
RECURSIVE find_models(_)
find_models(segs) ==
    IF segs = <<>> THEN <<>>
    ELSE IF starts_with_models(Head(segs)) THEN <<Head(segs)>>
    ELSE find_models(Tail(segs))

\* s.split(':').next(): the text before the first colon
before_colon(s) ==
    LET hits == {i \in 1..Len(s) : s[i] = ":"}
    IN  IF hits = {} THEN s
        ELSE SubSeq(s, 1, (CHOOSE k \in hits : \A j \in hits : k <= j) - 1)

\* the request_model with_model_from_uri computes
model_from_uri(uri) ==
    LET found == find_models(split_slash(uri))
    IN  IF found = <<>> THEN <<"unknown">>
        ELSE before_colon(SubSeq(found[1], 3, Len(found[1])))

\* handle_gemini: the context is built, then the model is taken from the URI
WithModelFromUri ==
    /\ uriRun.pc = "new"
    /\ uriRun' = [uriRun EXCEPT !.pc = "built", !.request_model = model_from_uri(uriRun.uri)]
    /\ UNCHANGED notUri

\* the request is over and its context dropped
UriContextDrop ==
    /\ uriRun.pc = "built"
    /\ uriRun' = [uriRun EXCEPT !.pc = "dropped"]
    /\ UNCHANGED notUri

InitUri ==
    /\ CoreIdle
    /\ CostIdle
    /\ PlIdle
    /\ SrvIdle
    /\ TgtIdle
    /\ uriRun \in {NewUriRun(u) : u \in Uris}

NextUri ==
    \/ WithModelFromUri
    \/ UriContextDrop

SpecUri == InitUri /\ [][NextUri]_vars

\* the positions of the URI where the text "models/" begins
ModelsAt(uri) ==
    {i \in 1..(Len(uri) - 1) : uri[i] = "models" /\ uri[i + 1] = "/"}

\* the model name embedded in the URI: the text after the first "models/"
\* up to the next slash, colon or question mark, "unknown" without "models/"
EmbeddedModel(uri) ==
    IF ModelsAt(uri) = {} THEN <<"unknown">>
    ELSE LET i == CHOOSE k \in ModelsAt(uri) : \A j \in ModelsAt(uri) : k <= j
             rest == SubSeq(uri, i + 2, Len(uri))
             stops == {k \in 1..Len(rest) : rest[k] \in {"/", ":", "?"}}
         IN  IF stops = {} THEN rest
             ELSE SubSeq(rest, 1, (CHOOSE k \in stops : \A j \in stops : k <= j) - 1)

\* C22: after with_model_from_uri the context's request_model is the model
\* name embedded in the URI, and "unknown" only when the URI has no
\* models/<name> part
C22_ModelFromUri ==
    uriRun.pc # "new" => uriRun.request_model = EmbeddedModel(uriRun.uri)

\* what the code does: whatever the URI, the request_model is "unknown"
C22_AlwaysUnknown ==
    uriRun.pc # "new" => uriRun.request_model = <<"unknown">>

\* the URI of the doc comment has been handled and the model is "unknown"
C22_GeminiUnknown ==
    /\ uriRun.pc = "built"
    /\ uriRun.uri = <<"/", "v1beta", "/", "models", "/", "name", ":", "action">>
    /\ EmbeddedModel(uriRun.uri) = <<"name">>
    /\ uriRun.request_model = <<"unknown">>

(***************************************************************************)
(* The active targets (SpecTargets): set_active_target writes the shared   *)
(* map under its write lock, get_status clones the status and then reads   *)
(* the map under its read lock.                                            *)
(***************************************************************************)

ProviderIds == {"p1", "p2"}

ProviderNames == {"P1", "P2"}

\* an insert that adds the entry and keeps the one the key had
insert_keeping(map, app_type, provider_id, provider_name) ==
    map \cup {[app_type |-> app_type, provider_id |-> provider_id,
               provider_name |-> provider_name]}

\* HashMap::insert: the entry of the key is replaced, the others stay
insert(map, app_type, provider_id, provider_name) ==
    {e \in map : e.app_type # app_type}
        \cup {[app_type |-> app_type, provider_id |-> provider_id,
               provider_name |-> provider_name]}

\* set_active_target(app_type, provider_id, provider_name)
SetActiveTarget(app_type, provider_id, provider_name) ==
    /\ currentProviders' = insert(currentProviders, app_type, provider_id, provider_name)
    /\ UNCHANGED <<statusView, notTgt>>

\* get_status: the status is cloned and the uptime computed
GetStatusBegin ==
    /\ statusView.pc \in {"idle", "returned"}
    /\ statusView' = [statusView EXCEPT !.pc = "reading"]
    /\ UNCHANGED <<currentProviders, notTgt>>

\* get_status: the map is read into active_targets and the status returned
GetStatusTargets ==
    /\ statusView.pc = "reading"
    /\ statusView' = [pc |-> "returned", active_targets |-> currentProviders]
    /\ UNCHANGED <<currentProviders, notTgt>>

InitTargets ==
    /\ CoreIdle
    /\ CostIdle
    /\ PlIdle
    /\ SrvIdle
    /\ UriIdle
    /\ currentProviders = {}
    /\ statusView = NewStatusView

NextTargets ==
    \/ \E a \in AppTypes, id \in ProviderIds, name \in ProviderNames :
          SetActiveTarget(a, id, name)
    \/ GetStatusBegin
    \/ GetStatusTargets

SpecTargets == InitTargets /\ [][NextTargets]_vars

\* the entries a set of targets has for one app type
EntriesOf(targets, a) == {e \in targets : e.app_type = a}

C23_Step ==
    \* a write replaces the entry of its app type and no other
    /\ currentProviders' # currentProviders =>
          \E a \in AppTypes :
              /\ Cardinality(EntriesOf(currentProviders', a)) = 1
              /\ EntriesOf(currentProviders', a) # EntriesOf(currentProviders, a)
              /\ \A b \in AppTypes \ {a} :
                    EntriesOf(currentProviders', b) = EntriesOf(currentProviders, b)
    \* a status read returns the entries the map has at the read
    /\ (statusView.pc = "reading" /\ statusView'.pc = "returned") =>
          statusView'.active_targets = currentProviders

\* C23: the map holds at most one entry per app type, a write replaces the
\* entry of its app type and leaves the others, and get_status returns the
\* entries the map holds when it reads it
C23_ActiveTargets ==
    /\ [](\A a \in AppTypes :
             /\ Cardinality(EntriesOf(currentProviders, a)) <= 1
             /\ Cardinality(EntriesOf(statusView.active_targets, a)) <= 1)
    /\ [][C23_Step]_vars

\* two app types have targets, one of them rewritten after the status was
\* read: the status shows the earlier entry, the map the later one
C23_Witness ==
    /\ statusView.pc = "returned"
    /\ [app_type |-> "claude", provider_id |-> "p1", provider_name |-> "P1"]
           \in statusView.active_targets
    /\ [app_type |-> "gemini", provider_id |-> "p2", provider_name |-> "P2"]
           \in statusView.active_targets
    /\ currentProviders =
           {[app_type |-> "claude", provider_id |-> "p2", provider_name |-> "P2"],
            [app_type |-> "gemini", provider_id |-> "p2", provider_name |-> "P2"]}

\* the handler of r returns in this step
Returns(r) == req[r].pc \in {"ok", "err"} /\ req'[r].pc = "done"

C24_Step ==
    \A r \in Requests :
        Returns(r) =>
            LET at == req[r].attempts
            IN  /\ req[r].pc = "ok" =>
                      \* the pipeline runs with the provider that served
                      /\ at # <<>> /\ Last(at).ok
                      /\ req'[r].ctxProvider = Last(at).p
                      /\ req'[r].ctxProvider = req[r].resProvider
                      /\ req'[r].logged = NoProvider
                /\ req[r].pc = "err" =>
                      \* the error record names the provider the error carries
                      /\ req'[r].logged = IF req[r].resProvider # NoProvider
                                          THEN req[r].resProvider
                                          ELSE req[r].ctxProviders[1]
                      /\ at # <<>> => req'[r].logged = Last(at).p

\* C24: when the handler returns after a successful forward, ctx.provider,
\* under which the response pipeline writes the Usage Record, is the provider
\* that served the last attempt; after a failed forward the error record is
\* written under the provider the error carries, the last one attempted, and
\* under the head of the chain only when the error carries none
C24_RecordProvider == [][C24_Step]_vars

\* the head of the chain failed, the second provider served, and the request
\* ended under the second provider
C24_Witness ==
    \E r \in Requests :
        /\ req[r].pc = "done"
        /\ req[r].error = "none"
        /\ Len(configured) >= 2
        /\ req[r].ctxProvider = configured[2]
        /\ breaker[configured[1]].state = "Closed"
        /\ breaker[configured[1]].failures = 1

\* every candidate failed and the error record names the last one, not the head
C24_ErrorUnderLast ==
    \E r \in Requests :
        /\ req[r].pc = "done"
        /\ req[r].error = "ForwardFailed"
        /\ Len(configured) >= 2
        /\ req[r].logged = configured[Len(configured)]

\* the errors RequestContext::new returns
ContextErrors ==
    {"DatabaseError", "NoProvidersConfigured", "AllProvidersCircuitOpen", "NoAvailableProvider"}

\* RequestContext::new of r fails in this step
ContextFails(r) == req[r].pc \in {"idle", "select"} /\ req'[r].pc = "done"

C25_Step ==
    \A r \in Requests :
        /\ ContextFails(r) =>
              \* the handler returns the error of the context
              /\ req'[r].error \in ContextErrors
              \* no upstream attempt, no breaker outcome, no record
              /\ req[r].attempts = <<>>
              /\ req[r].chain = <<>>
              /\ breaker' = breaker
              /\ req'[r].logged = NoProvider
              /\ req'[r].ctxProvider = NoProvider
              \* no trial slot stays with the request
              /\ req[r].held = {}
              /\ \A i \in 1..Len(req[r].decisions) : req[r].decisions[i] = "Rejected"
              \* a failed configuration read comes before select_providers
              /\ req[r].pc = "idle" =>
                    /\ req[r].selCalls = 0
                    /\ req[r].decisions = <<>>
                    /\ req'[r].error = "DatabaseError"
        \* a rejection leaves the breaker as it was
        /\ (req[r].pc = "select" /\ Len(req'[r].decisions) > Len(req[r].decisions)
               /\ Last(req'[r].decisions) = "Rejected") => breaker' = breaker

\* C25: a request whose context cannot be built ends with the context's
\* error, with no upstream attempt, no breaker outcome recorded, no record
\* written and no trial slot reserved; a failed read of the proxy
\* configuration ends it before select_providers is called
C25_ContextFailure == [][C25_Step]_vars

\* a request was refused while another request holds the only trial slot of
\* a HalfOpen breaker, which is left as it was
C25_Witness ==
    \E r \in Requests :
        /\ req[r].pc = "done"
        /\ req[r].error = "AllProvidersCircuitOpen"
        /\ req[r].logged = NoProvider
        /\ \E p \in Providers : breaker[p].state = "HalfOpen" /\ breaker[p].trials = 1

\* the configuration read failed and a cooled-down Open breaker kept its
\* trial slot
C25_ConfigReadFailed ==
    \E r \in Requests :
        /\ req[r].pc = "done"
        /\ req[r].error = "DatabaseError"
        /\ \A q \in Requests \ {r} : req[q].pc = "idle"
        /\ \E p \in Providers :
              /\ breaker[p].state = "Open"
              /\ breaker[p].cooled
              /\ breaker[p].trials = 0

C26_NotJson ==
    /\ pipe.pc = "done"
    /\ pipe.input.outcome = "buffered"
    /\ pipe.input.read_ok
    /\ ~pipe.input.body.json
    /\ \E i \in UsageTasks : ~tasks[i].parsed /\ tasks[i].state = "stored"

\* a JSON body with usage gave one record with the parsed tokens
C26_WithUsage ==
    /\ pipe.pc = "done"
    /\ pipe.input.outcome = "buffered"
    /\ pipe.input.body.parser_usage # <<>>
    /\ \E i \in UsageTasks : tasks[i].parsed /\ tasks[i].state = "stored"

\* the body could not be read: ForwardFailed and nothing submitted
C26_ReadFailed ==
    /\ pipe.pc = "done"
    /\ pipe.input.outcome = "buffered"
    /\ ~pipe.input.read_ok
    /\ pipe.response = <<ErrResponse("ForwardFailed")>>
    /\ tasks = <<>>

\* the relay of handle_streaming, whose collector is the pass-through one,
\* with a generator, an upstream and a response body that keep going: some
\* step is taken as long as one is possible
InitRelayFair ==
    /\ InitRelay
    /\ collector.kind = "passthrough"

SpecRelayFair == InitRelayFair /\ [][NextRelay]_vars /\ WF_vars(NextRelay)

\* C27: every stream handed to the relay eventually has its usage record,
\* also when the response body is dropped before the upstream has ended
C27_EventuallyRecorded == <>(usageLog # <<>>)

\* the part of C27 that holds: a stream whose response body is not dropped
\* eventually has its usage record
C27_RecordedUnlessDropped == <>(usageLog # <<>> \/ relay.pc = "dropped")

\* the response body was dropped while the upstream was still sending: the
\* relay is over and no record was or will be written
C27_DroppedUnrecorded ==
    /\ relay.pc = "dropped"
    /\ relay.endCause = "none"
    /\ upstream.pos < Len(upstream.wire)
    /\ items # <<>>
    /\ collector.events # <<>>
    /\ ~collector.finished
    /\ usageLog = <<>>
    /\ ~ENABLED NextRelay

\* task t makes one of the two steps that end it
Completes(t) ==
    /\ srvTasks[t].state \in {"draining", "clearing"}
    /\ srvTasks'[t].state # srvTasks[t].state

\* a task started after t is serving
NewerServing(t) ==
    \E u \in DOMAIN srvTasks : u > t /\ srvTasks[u].state = "serving"

C28_Step ==
    \A t \in DOMAIN srvTasks :
        Completes(t) /\ NewerServing(t) =>
            /\ server'.running = server.running
            /\ server'.start_time = server.start_time

\* C28 (as claimed): the completion of an older server task never sets
\* running to false or clears start_time while a newer server task is serving
C28_StatusOfLatest == [][C28_Step]_vars

\* the part of C28 that holds: while the server has started one task only,
\* the status after a sole caller's successful start() is that task's, and
\* running and start_time are cleared by a completing task and by nothing else
C28_SingleTask ==
    /\ \A c \in Callers :
          (OnlyCaller(c) /\ LastResult(c, "start", "Ok") /\ Len(srvTasks) = 1) =>
             /\ server.running
             /\ server.start_time = 1
    /\ [][(server.running /\ ~server'.running) \/ (server.start_time # 0 /\ server'.start_time = 0) =>
             \E t \in DOMAIN srvTasks : Completes(t)]_vars

\* one caller: stop() timed out, start() succeeded, and the first task's
\* completion has left the status of a stopped server while the second serves
C28_StaleStatus ==
    \E c \in Callers :
        /\ OnlyCaller(c)
        /\ LastResult(c, "start", "Ok")
        /\ Len(srvTasks) = 2
        /\ srvTasks[1].state = "done"
        /\ srvTasks[2].state = "serving"
        /\ server.shutdown_tx = 2
        /\ server.server_handle = 2
        /\ ~server.running
        /\ server.start_time = 0

\* c's start() has not got past the bind: it has just begun, or is at the bind
BeforeBound(c) == Begins(c, "start") \/ calls[c].pc = "bind"

\* c's start() returns BindFailed in this step
BindFails(c) ==
    /\ calls'[c] # calls[c]
    /\ calls'[c].pc = "returned"
    /\ calls'[c].result = "BindFailed"

C29_Step ==
    \A c \in Callers :
        /\ BeforeBound(c) /\ calls'[c] # calls[c] => server' = server
        /\ BindFails(c) =>
              /\ BeforeBound(c)
              /\ calls'[c].op = "start"
              /\ srvTasks' = srvTasks
        /\ OnlyCaller(c) /\ LastResult(c, "start", "BindFailed") /\ Begins(c, "start") =>
              calls'[c].result # "AlreadyRunning"

C29_Sequential ==
    \A c \in Callers :
        OnlyCaller(c) /\ LastResult(c, "start", "BindFailed") =>
            /\ server.shutdown_tx = 0
            /\ server.server_handle = 0
            /\ (\A t \in DOMAIN srvTasks : TaskFinished(t)) =>
                  /\ ~server.running
                  /\ server.start_time = 0

\* C29: a start() that returns BindFailed (address that does not parse, or
\* bind error) has written nothing: every step of the call up to the bind
\* leaves the server as it was and the failing step starts no task; for one
\* caller at a time no shutdown handle and no task handle are stored after it,
\* running is false and start_time None once no older task is left, and the
\* next start() is not refused with AlreadyRunning
C29_BindFailed == [][C29_Step]_vars /\ []C29_Sequential

\* the bind failed on a server that had never started: nothing is stored
C29_Witness ==
    \E c \in Callers :
        /\ OnlyCaller(c)
        /\ LastResult(c, "start", "BindFailed")
        /\ server.addr_valid
        /\ srvTasks = <<>>
        /\ server = NewServer(TRUE, server.port_fixed)

\* the listen address does not parse
C29_InvalidAddress ==
    \E c \in Callers :
        /\ OnlyCaller(c)
        /\ LastResult(c, "start", "BindFailed")
        /\ ~server.addr_valid
        /\ server = NewServer(FALSE, server.port_fixed)

\* the bind failed on the port a task that outlived stop() still listens on
C29_PortStillTaken ==
    \E c \in Callers :
        /\ OnlyCaller(c)
        /\ LastResult(c, "start", "BindFailed")
        /\ PortTaken
        /\ ~Running

\* the server tasks that accept connections
Accepting ==
    {t \in DOMAIN srvTasks : srvTasks[t].state = "serving" /\ ~ShutdownResolved(t)}

\* no stop() has ever taken a shutdown handle: no shutdown was sent, and no
\* task has ended
NeverStopped ==
    \A t \in DOMAIN srvTasks : srvTasks[t].sender \in {"held", "dropped"}

\* no start() and no stop() is in progress
Quiet == \A c \in Callers : CanCall(c)

\* C30 (as claimed): at most one server task accepts connections; of two
\* overlapping start() calls on a server that was never stopped at most one
\* returns Ok; and with no call in progress the stored shutdown handle and
\* task handle are those of the task that is serving
C30_OneServer ==
    /\ Cardinality(Accepting) <= 1
    /\ \A c, d \in Callers :
          (c # d /\ NeverStopped) =>
              ~(LastResult(c, "start", "Ok") /\ LastResult(d, "start", "Ok"))
    /\ (Quiet /\ Running) =>
          /\ server.server_handle = server.shutdown_tx
          /\ srvTasks[server.shutdown_tx].state = "serving"

\* the part of C30 that holds: at most one task accepts connections whose
\* shutdown handle is stored or still to be stored, the stored shutdown
\* handle is that of a task not yet asked to stop, and on a fixed port a
\* task binds only when no other task listens
C30_OneAccepting ==
    /\ Cardinality(Accepting) <= 1
    /\ Running => srvTasks[server.shutdown_tx].sender = "held"
    /\ \A t \in Accepting : server.shutdown_tx = t
    /\ server.port_fixed =>
          Cardinality({t \in DOMAIN srvTasks : srvTasks[t].listener}) <= 1

\* both overlapping start() calls returned Ok on a server never stopped; the
\* task of one of them was shut down by the other's handle store
C30_BothOk ==
    \E c, d \in Callers :
        /\ c # d
        /\ NeverStopped
        /\ LastResult(c, "start", "Ok")
        /\ LastResult(d, "start", "Ok")
        /\ Len(srvTasks) = 2
        /\ \E t \in DOMAIN srvTasks : srvTasks[t].sender = "dropped"

\* both start() calls returned Ok and the two stored handles are those of
\* different tasks: stop() signals one task and waits on the other
C30_MixedHandles ==
    /\ Quiet
    /\ NeverStopped
    /\ Running
    /\ server.server_handle # 0
    /\ server.server_handle # server.shutdown_tx

====
